---- MODULE Spec2Model ----
(***************************************************************************)
(* A model of the spirv_cross Rust wrapper: the Compiler / Ast handle      *)
(* (compiler.rs, spirv.rs) and the MSL target (msl.rs).                    *)
(*                                                                         *)
(* The native engine is an opaque service: every native command returns a  *)
(* status chosen by the engine, and the buffers it hands over are named so *)
(* that every read and every release of a buffer is an event of the call.  *)
(* One action models one public operation from entry to return.            *)
(***************************************************************************)
EXTENDS Integers, Sequences, FiniteSets, TLC

VARIABLES
    handles,   \* slot -> the Ast / Compiler value held by that binding
    native,    \* address -> the native compiler instance living there
    call,      \* the last public call: operation, result, native events
    hist       \* slot -> what compile calls the handle held there has seen

vars == <<handles, native, call, hist>>

----------------------------------------------------------------------------
(* Bounds of the model *)

MaxHandles == 3      \* bindings that can hold a handle; native addresses
MaxElems == 2        \* elements of a native array (entry points, resources)
MaxLodInput == 576   \* the largest f32 given to LodBase16::from, in 1/32
MaxFreeFault == 2    \* the engine may fail one of the first releases of a call

Slots == 1..MaxHandles
Ptrs == 1..MaxHandles
NullPtr == 0

----------------------------------------------------------------------------
(* Native statuses and the check! macro *)

Status == {"Success", "CompilationError", "Unhandled"}
FailStatus == {"CompilationError", "Unhandled"}

EngineMessage == "engine diagnostic"
CompileFirstMessage == "compile must be called first"
NoValue == "-"

Ok(v) == [ok |-> TRUE, err |-> "None", val |-> v]
Err(kind, msg) == [ok |-> FALSE, err |-> kind, val |-> msg]

\* check!(status): a non-success status becomes the typed error
CheckErr(st) ==
    IF st = "CompilationError"
    THEN Err("CompilationError", EngineMessage)
    ELSE Err("Unhandled", NoValue)

----------------------------------------------------------------------------
(* Text crossing the boundary: strings are byte sequences *)

NameMain == <<109, 97, 105, 110>>         \* "main"
NameFrag == <<102, 115>>                  \* "fs"
NameNul == <<97, 0, 98>>                  \* "a\0b": not encodable
RustNames == {NameMain, NameFrag, NameNul}

CStringUnchecked(s) == [ok |-> TRUE, bytes |-> Append(s, 0)]

\* CString::new: fails on an interior zero byte, else appends the terminator
CStringNew(s) ==
    IF \E i \in 1..Len(s) : s[i] = 0
    THEN [ok |-> FALSE, bytes |-> <<>>]
    ELSE [ok |-> TRUE, bytes |-> Append(s, 0)]

IsCont(b) == b >= 128 /\ b <= 191

\* Length of the well-formed UTF-8 sequence starting at s[i], 0 when ill-formed
Utf8Step(s, i) ==
    LET b == s[i]
        n == Len(s)
        c(j) == i + j <= n /\ IsCont(s[i + j])
    IN  IF b < 128 THEN 1
        ELSE IF b >= 194 /\ b <= 223 THEN (IF c(1) THEN 2 ELSE 0)
        ELSE IF b = 224 THEN (IF c(1) /\ c(2) /\ s[i + 1] >= 160 THEN 3 ELSE 0)
        ELSE IF b = 237 THEN (IF c(1) /\ c(2) /\ s[i + 1] <= 159 THEN 3 ELSE 0)
        ELSE IF b >= 225 /\ b <= 239 THEN (IF c(1) /\ c(2) THEN 3 ELSE 0)
        ELSE IF b = 240 THEN (IF c(1) /\ c(2) /\ c(3) /\ s[i + 1] >= 144 THEN 4 ELSE 0)
        ELSE IF b = 244 THEN (IF c(1) /\ c(2) /\ c(3) /\ s[i + 1] <= 143 THEN 4 ELSE 0)
        ELSE IF b >= 241 /\ b <= 243 THEN (IF c(1) /\ c(2) /\ c(3) THEN 4 ELSE 0)
        ELSE 0

RECURSIVE Utf8ValidFrom(_, _)
Utf8ValidFrom(s, i) ==
    IF i > Len(s) THEN TRUE
    ELSE LET k == Utf8Step(s, i)
         IN  IF k = 0 THEN FALSE ELSE Utf8ValidFrom(s, i + k)

\* CStr::to_str / into_string: the bytes when they are valid UTF-8
DecodeString(s) ==
    IF Utf8ValidFrom(s, 1) THEN Ok(s) ELSE Err("Unhandled", NoValue)

StrA == <<65>>                 \* "A"
StrE == <<195, 169>>           \* "e" with acute accent, two bytes
StrBad == <<255>>              \* never valid in UTF-8
StrCut == <<195>>              \* a lead byte with no continuation
NativeStrings == {<<>>, StrA, StrE, StrBad, StrCut}
ElemStrings == {StrA, StrBad}

----------------------------------------------------------------------------
(* Events of a call: native commands, buffer reads, buffer releases *)

Buf(kind, c, k) == [b |-> kind, c |-> c, k |-> k]
NoBuf == Buf("none", 0, 0)

CmdEv(name, args, st) ==
    [k |-> "cmd", name |-> name, buf |-> NoBuf, args |-> args, st |-> st]
ReadEv(buf) ==
    [k |-> "read", name |-> "read", buf |-> buf, args |-> <<>>, st |-> "Success"]
FreeEv(buf, st) ==
    [k |-> "free", name |-> "free_pointer", buf |-> buf, args |-> <<>>, st |-> st]

\* Decoding the string in buffer b reads it; st tells whether it was valid text
DecodeEv(buf, ok) ==
    [k |-> "read", name |-> "decode", buf |-> buf, args |-> <<>>,
     st |-> IF ok THEN "Success" ELSE "Unhandled"]

IsFree(e) == e.k = "free"
IsNative(e) == e.k \in {"cmd", "free"}
NumFrees(t) == Len(SelectSeq(t, IsFree))
NumNative(t) == Len(SelectSeq(t, IsNative))

\* How often buffer b is released / read in trace t
Releases(t, b) == LET P(e) == e.k = "free" /\ e.buf = b IN Len(SelectSeq(t, P))
Reads(t, b) == LET P(e) == e.k = "read" /\ e.buf = b IN Len(SelectSeq(t, P))

\* The answer of the engine to the next release of a call: the fault f names the
\* ordinal of the release that fails (0: none) and the status it fails with
NoFault == [at |-> 0, st |-> "Success"]
FreeStatus(t, f) == IF f.at = NumFrees(t) + 1 THEN f.st ELSE "Success"
Free(t, b, f) == Append(t, FreeEv(b, FreeStatus(t, f)))
LastOk(t) == t[Len(t)].st = "Success"
LastErr(t) == CheckErr(t[Len(t)].st)

\* What a handler returns: its events, its result, the buffers it was handed
Ret(t, r, bufs) == [trace |-> t, res |-> r, bufs |-> bufs]

----------------------------------------------------------------------------
(* MSL target options (msl.rs) *)

\* spv::ExecutionModel, ordered by its discriminant
ExecutionModelRank(m) ==
    CASE m = "Vertex" -> 0
      [] m = "TessellationControl" -> 1
      [] m = "TessellationEvaluation" -> 2
      [] m = "Geometry" -> 3
      [] m = "Fragment" -> 4
      [] m = "GlCompute" -> 5
      [] m = "Kernel" -> 6

ExecutionModels == {"Vertex", "Fragment"}

\* Lexicographic order on number tuples of equal length (derived Ord)
RECURSIVE LexLess(_, _)
LexLess(a, b) ==
    IF a = <<>> THEN FALSE
    ELSE IF Head(a) # Head(b) THEN Head(a) < Head(b)
    ELSE LexLess(Tail(a), Tail(b))

ResourceBindingLocationLess(a, b) ==
    LexLess(<<ExecutionModelRank(a.stage), a.desc_set, a.binding>>,
            <<ExecutionModelRank(b.stage), b.desc_set, b.binding>>)
VertexAttributeLocationLess(a, b) == a < b
SamplerLocationLess(a, b) ==
    LexLess(<<a.desc_set, a.binding>>, <<b.desc_set, b.binding>>)

\* LodBase16 is a u8 counting sixteenths; ZERO and MAX are its bounds
LodZero == 0
LodMax == 255
\* From<LodBase16> for f32: val.0 as f32 / 16.0, kept as numerator over 16
LodToF32(l) == <<l, 16>>

\* An f32 is a number counted in thirty-seconds, or an infinity, or NaN
F32Unit == 2 * 16
F32Num(n) == [cls |-> "num", num |-> n]
F32Inf == [cls |-> "inf", num |-> 0]
F32NegInf == [cls |-> "-inf", num |-> 0]
F32NaN == [cls |-> "nan", num |-> 0]
\* v * k for an integer k
F32Times(v, k) == IF v.cls = "num" THEN F32Num(v.num * k) ELSE v
\* f32::max: the other operand when one is NaN
F32Max(v, k) ==
    IF v.cls \in {"nan", "-inf"} THEN F32Num(k * F32Unit)
    ELSE IF v.cls = "inf" THEN v
    ELSE IF v.num < k * F32Unit THEN F32Num(k * F32Unit) ELSE v
\* f32::min: the other operand when one is NaN
F32Min(v, k) ==
    IF v.cls \in {"nan", "inf"} THEN F32Num(k * F32Unit)
    ELSE IF v.cls = "-inf" THEN v
    ELSE IF v.num > k * F32Unit THEN F32Num(k * F32Unit) ELSE v
\* v as u8: truncates toward zero and saturates; NaN is 0
F32AsU8(v) ==
    IF v.cls \in {"nan", "-inf"} THEN 0
    ELSE IF v.cls = "inf" THEN LodMax
    ELSE IF v.num < 0 THEN 0
    ELSE IF v.num \div F32Unit > LodMax THEN LodMax
    ELSE v.num \div F32Unit
\* v as u8 as a cast that wraps around
F32AsU8Wrapping(v) == IF v.cls = "num" THEN (v.num \div F32Unit) % (LodMax + 1) ELSE 0

\* the conversion without the upper clamp, its cast wrapping around
LodBase16FromUnclamped(v) == F32AsU8Wrapping(F32Max(F32Times(v, 16), 0))
\* From<f32> for LodBase16: (v * 16.0).max(0.0).min(u8::MAX as f32) as u8
LodBase16From(v) == F32AsU8(F32Min(F32Max(F32Times(v, 16), 0), LodMax))

\* Version::as_raw
VersionAsRaw(v) ==
    CASE v = "V1_0" -> 10000
      [] v = "V1_1" -> 10100
      [] v = "V1_2" -> 10200
      [] v = "V2_0" -> 20000
      [] v = "V2_1" -> 20100
      [] v = "V2_2" -> 20200
      [] v = "V2_3" -> 20300

\* Platform as u8
PlatformAsRaw(p) == IF p = "iOS" THEN 0 ELSE 1

EmptyMap == <<>>
None == <<>>
Some(x) == <<x>>

\* CompilerOptions::default()
DefaultOptions ==
    [platform |-> "macOS",
     version |-> "V1_2",
     vertex |-> [invert_y |-> FALSE, transform_clip_space |-> FALSE],
     swizzle_buffer_index |-> 30,
     indirect_params_buffer_index |-> 29,
     output_buffer_index |-> 28,
     patch_output_buffer_index |-> 27,
     tessellation_factor_buffer_index |-> 26,
     buffer_size_buffer_index |-> 25,
     enable_point_size_builtin |-> TRUE,
     enable_rasterization |-> TRUE,
     capture_output_to_buffer |-> FALSE,
     swizzle_texture_samples |-> FALSE,
     tessellation_domain_origin_lower_left |-> FALSE,
     enable_argument_buffers |-> FALSE,
     pad_fragment_output_components |-> FALSE,
     resource_binding_overrides |-> EmptyMap,
     vertex_attribute_overrides |-> EmptyMap,
     const_samplers |-> EmptyMap,
     force_native_arrays |-> FALSE,
     force_zero_initialized_variables |-> FALSE,
     force_active_argument_buffer_resources |-> FALSE,
     entry_point |-> None]

\* The raw option record handed to msl_set_options
RawOptions(options) ==
    [vertex_invert_y |-> options.vertex.invert_y,
     vertex_transform_clip_space |-> options.vertex.transform_clip_space,
     platform |-> PlatformAsRaw(options.platform),
     version |-> VersionAsRaw(options.version),
     enable_point_size_builtin |-> options.enable_point_size_builtin,
     disable_rasterization |-> ~options.enable_rasterization,
     swizzle_buffer_index |-> options.swizzle_buffer_index,
     indirect_params_buffer_index |-> options.indirect_params_buffer_index,
     shader_output_buffer_index |-> options.output_buffer_index,
     shader_patch_output_buffer_index |-> options.patch_output_buffer_index,
     shader_tess_factor_buffer_index |-> options.tessellation_factor_buffer_index,
     buffer_size_buffer_index |-> options.buffer_size_buffer_index,
     capture_output_to_buffer |-> options.capture_output_to_buffer,
     swizzle_texture_samples |-> options.swizzle_texture_samples,
     tess_domain_origin_lower_left |-> options.tessellation_domain_origin_lower_left,
     argument_buffers |-> options.enable_argument_buffers,
     pad_fragment_output_components |-> options.pad_fragment_output_components,
     force_native_arrays |-> options.force_native_arrays,
     force_zero_initialized_variables |-> options.force_zero_initialized_variables,
     force_active_argument_buffer_resources |->
         options.force_active_argument_buffer_resources]

\* BuiltIn::from_raw: one arm per native member; Max is unreachable!()
BuiltInFromRaw(v) ==
    CASE v = "spv::Position" -> "Position"
      [] v = "spv::PointSize" -> "PointSize"
      [] v = "spv::ClipDistance" -> "ClipDistance"
      [] v = "spv::CullDistance" -> "CullDistance"
      [] v = "spv::VertexId" -> "VertexId"
      [] v = "spv::InstanceId" -> "InstanceId"
      [] v = "spv::PrimitiveId" -> "PrimitiveId"
      [] v = "spv::InvocationId" -> "InvocationId"
      [] v = "spv::Layer" -> "Layer"
      [] v = "spv::ViewportIndex" -> "ViewportIndex"
      [] v = "spv::TessLevelOuter" -> "TessLevelOuter"
      [] v = "spv::TessLevelInner" -> "TessLevelInner"
      [] v = "spv::TessCoord" -> "TessCoord"
      [] v = "spv::PatchVertices" -> "PatchVertices"
      [] v = "spv::FragCoord" -> "FragCoord"
      [] v = "spv::PointCoord" -> "PointCoord"
      [] v = "spv::FrontFacing" -> "FrontFacing"
      [] v = "spv::SampleId" -> "SampleId"
      [] v = "spv::SamplePosition" -> "SamplePosition"
      [] v = "spv::SampleMask" -> "SampleMask"
      [] v = "spv::FragDepth" -> "FragDepth"
      [] v = "spv::HelperInvocation" -> "HelperInvocation"
      [] v = "spv::NumWorkgroups" -> "NumWorkgroups"
      [] v = "spv::WorkgroupSize" -> "WorkgroupSize"
      [] v = "spv::WorkgroupId" -> "WorkgroupId"
      [] v = "spv::LocalInvocationId" -> "LocalInvocationId"
      [] v = "spv::GlobalInvocationId" -> "GlobalInvocationId"
      [] v = "spv::LocalInvocationIndex" -> "LocalInvocationIndex"
      [] v = "spv::WorkDim" -> "WorkDim"
      [] v = "spv::GlobalSize" -> "GlobalSize"
      [] v = "spv::EnqueuedWorkgroupSize" -> "EnqueuedWorkgroupSize"
      [] v = "spv::GlobalOffset" -> "GlobalOffset"
      [] v = "spv::GlobalLinearId" -> "GlobalLinearId"
      [] v = "spv::SubgroupSize" -> "SubgroupSize"
      [] v = "spv::SubgroupMaxSize" -> "SubgroupMaxSize"
      [] v = "spv::NumSubgroups" -> "NumSubgroups"
      [] v = "spv::NumEnqueuedSubgroups" -> "NumEnqueuedSubgroups"
      [] v = "spv::SubgroupId" -> "SubgroupId"
      [] v = "spv::SubgroupLocalInvocationId" -> "SubgroupLocalInvocationId"
      [] v = "spv::VertexIndex" -> "VertexIndex"
      [] v = "spv::InstanceIndex" -> "InstanceIndex"
      [] v = "spv::SubgroupEqMask" -> "SubgroupEqMask"
      [] v = "spv::SubgroupGeMask" -> "SubgroupGeMask"
      [] v = "spv::SubgroupGtMask" -> "SubgroupGtMask"
      [] v = "spv::SubgroupLeMask" -> "SubgroupLeMask"
      [] v = "spv::SubgroupLtMask" -> "SubgroupLtMask"
      [] v = "spv::BaseVertex" -> "BaseVertex"
      [] v = "spv::BaseInstance" -> "BaseInstance"
      [] v = "spv::DrawIndex" -> "DrawIndex"
      [] v = "spv::PrimitiveShadingRateKhr" -> "PrimitiveShadingRateKhr"
      [] v = "spv::DeviceIndex" -> "DeviceIndex"
      [] v = "spv::ViewIndex" -> "ViewIndex"
      [] v = "spv::ShadingRateKhr" -> "ShadingRateKhr"
      [] v = "spv::BaryCoordNoPerspAmd" -> "BaryCoordNoPerspAmd"
      [] v = "spv::BaryCoordNoPerspCentroidAmd" -> "BaryCoordNoPerspCentroidAmd"
      [] v = "spv::BaryCoordNoPerspSampleAmd" -> "BaryCoordNoPerspSampleAmd"
      [] v = "spv::BaryCoordSmoothAmd" -> "BaryCoordSmoothAmd"
      [] v = "spv::BaryCoordSmoothCentroidAmd" -> "BaryCoordSmoothCentroidAmd"
      [] v = "spv::BaryCoordSmoothSampleAmd" -> "BaryCoordSmoothSampleAmd"
      [] v = "spv::BaryCoordPullModelAmd" -> "BaryCoordPullModelAmd"
      [] v = "spv::FragStencilRefExt" -> "FragStencilRefExt"
      [] v = "spv::ViewportMaskNv" -> "ViewportMaskNv"
      [] v = "spv::SecondaryPositionNv" -> "SecondaryPositionNv"
      [] v = "spv::SecondaryViewportMaskNv" -> "SecondaryViewportMaskNv"
      [] v = "spv::PositionPerViewNv" -> "PositionPerViewNv"
      [] v = "spv::ViewportMaskPerViewNv" -> "ViewportMaskPerViewNv"
      [] v = "spv::FullyCoveredExt" -> "FullyCoveredExt"
      [] v = "spv::TaskCountNv" -> "TaskCountNv"
      [] v = "spv::PrimitiveCountNv" -> "PrimitiveCountNv"
      [] v = "spv::PrimitiveIndicesNv" -> "PrimitiveIndicesNv"
      [] v = "spv::ClipDistancePerViewNv" -> "ClipDistancePerViewNv"
      [] v = "spv::CullDistancePerViewNv" -> "CullDistancePerViewNv"
      [] v = "spv::LayerPerViewNv" -> "LayerPerViewNv"
      [] v = "spv::MeshViewCountNv" -> "MeshViewCountNv"
      [] v = "spv::MeshViewIndicesNv" -> "MeshViewIndicesNv"
      [] v = "spv::BaryCoordKhr" -> "BaryCoordKhr"
      [] v = "spv::BaryCoordNoPerspKhr" -> "BaryCoordNoPerspKhr"
      [] v = "spv::FragSizeExt" -> "FragSizeExt"
      [] v = "spv::FragInvocationCountExt" -> "FragInvocationCountExt"
      [] v = "spv::PrimitivePointIndicesExt" -> "PrimitivePointIndicesExt"
      [] v = "spv::PrimitiveLineIndicesExt" -> "PrimitiveLineIndicesExt"
      [] v = "spv::PrimitiveTriangleIndicesExt" -> "PrimitiveTriangleIndicesExt"
      [] v = "spv::CullPrimitiveExt" -> "CullPrimitiveExt"
      [] v = "spv::LaunchIdKhr" -> "LaunchIdKhr"
      [] v = "spv::LaunchSizeKhr" -> "LaunchSizeKhr"
      [] v = "spv::WorldRayOriginKhr" -> "WorldRayOriginKhr"
      [] v = "spv::WorldRayDirectionKhr" -> "WorldRayDirectionKhr"
      [] v = "spv::ObjectRayOriginKhr" -> "ObjectRayOriginKhr"
      [] v = "spv::ObjectRayDirectionKhr" -> "ObjectRayDirectionKhr"
      [] v = "spv::RayTminKhr" -> "RayTminKhr"
      [] v = "spv::RayTmaxKhr" -> "RayTmaxKhr"
      [] v = "spv::InstanceCustomIndexKhr" -> "InstanceCustomIndexKhr"
      [] v = "spv::ObjectToWorldKhr" -> "ObjectToWorldKhr"
      [] v = "spv::WorldToObjectKhr" -> "WorldToObjectKhr"
      [] v = "spv::HitTnv" -> "HitTnv"
      [] v = "spv::HitKindKhr" -> "HitKindKhr"
      [] v = "spv::CurrentRayTimeNv" -> "CurrentRayTimeNv"
      [] v = "spv::IncomingRayFlagsKhr" -> "IncomingRayFlagsKhr"
      [] v = "spv::RayGeometryIndexKhr" -> "RayGeometryIndexKhr"
      [] v = "spv::WarpsPerSmnv" -> "WarpsPerSmnv"
      [] v = "spv::SmCountNv" -> "SmCountNv"
      [] v = "spv::WarpIdnv" -> "WarpIdnv"
      [] v = "spv::Smidnv" -> "Smidnv"
      [] v = "spv::CullMaskKhr" -> "CullMaskKhr"
      [] v = "spv::Max" -> "panic: invalid builtin"

\* built_in_as_raw with the arms of Position and PointSize exchanged
built_in_as_raw_exchanged(built_in) ==
    CASE built_in = "None" -> "spv::Max"
      [] built_in = "Position" -> "spv::PointSize"
      [] built_in = "PointSize" -> "spv::Position"
      [] OTHER -> "spv::" \o built_in

\* built_in_as_raw: None is the native sentinel Max
built_in_as_raw(built_in) ==
    CASE built_in = "None" -> "spv::Max"
      [] built_in = "Position" -> "spv::Position"
      [] built_in = "PointSize" -> "spv::PointSize"
      [] built_in = "ClipDistance" -> "spv::ClipDistance"
      [] built_in = "CullDistance" -> "spv::CullDistance"
      [] built_in = "VertexId" -> "spv::VertexId"
      [] built_in = "InstanceId" -> "spv::InstanceId"
      [] built_in = "PrimitiveId" -> "spv::PrimitiveId"
      [] built_in = "InvocationId" -> "spv::InvocationId"
      [] built_in = "Layer" -> "spv::Layer"
      [] built_in = "ViewportIndex" -> "spv::ViewportIndex"
      [] built_in = "TessLevelOuter" -> "spv::TessLevelOuter"
      [] built_in = "TessLevelInner" -> "spv::TessLevelInner"
      [] built_in = "TessCoord" -> "spv::TessCoord"
      [] built_in = "PatchVertices" -> "spv::PatchVertices"
      [] built_in = "FragCoord" -> "spv::FragCoord"
      [] built_in = "PointCoord" -> "spv::PointCoord"
      [] built_in = "FrontFacing" -> "spv::FrontFacing"
      [] built_in = "SampleId" -> "spv::SampleId"
      [] built_in = "SamplePosition" -> "spv::SamplePosition"
      [] built_in = "SampleMask" -> "spv::SampleMask"
      [] built_in = "FragDepth" -> "spv::FragDepth"
      [] built_in = "HelperInvocation" -> "spv::HelperInvocation"
      [] built_in = "NumWorkgroups" -> "spv::NumWorkgroups"
      [] built_in = "WorkgroupSize" -> "spv::WorkgroupSize"
      [] built_in = "WorkgroupId" -> "spv::WorkgroupId"
      [] built_in = "LocalInvocationId" -> "spv::LocalInvocationId"
      [] built_in = "GlobalInvocationId" -> "spv::GlobalInvocationId"
      [] built_in = "LocalInvocationIndex" -> "spv::LocalInvocationIndex"
      [] built_in = "WorkDim" -> "spv::WorkDim"
      [] built_in = "GlobalSize" -> "spv::GlobalSize"
      [] built_in = "EnqueuedWorkgroupSize" -> "spv::EnqueuedWorkgroupSize"
      [] built_in = "GlobalOffset" -> "spv::GlobalOffset"
      [] built_in = "GlobalLinearId" -> "spv::GlobalLinearId"
      [] built_in = "SubgroupSize" -> "spv::SubgroupSize"
      [] built_in = "SubgroupMaxSize" -> "spv::SubgroupMaxSize"
      [] built_in = "NumSubgroups" -> "spv::NumSubgroups"
      [] built_in = "NumEnqueuedSubgroups" -> "spv::NumEnqueuedSubgroups"
      [] built_in = "SubgroupId" -> "spv::SubgroupId"
      [] built_in = "SubgroupLocalInvocationId" -> "spv::SubgroupLocalInvocationId"
      [] built_in = "VertexIndex" -> "spv::VertexIndex"
      [] built_in = "InstanceIndex" -> "spv::InstanceIndex"
      [] built_in = "SubgroupEqMask" -> "spv::SubgroupEqMask"
      [] built_in = "SubgroupGeMask" -> "spv::SubgroupGeMask"
      [] built_in = "SubgroupGtMask" -> "spv::SubgroupGtMask"
      [] built_in = "SubgroupLeMask" -> "spv::SubgroupLeMask"
      [] built_in = "SubgroupLtMask" -> "spv::SubgroupLtMask"
      [] built_in = "BaseVertex" -> "spv::BaseVertex"
      [] built_in = "BaseInstance" -> "spv::BaseInstance"
      [] built_in = "DrawIndex" -> "spv::DrawIndex"
      [] built_in = "PrimitiveShadingRateKhr" -> "spv::PrimitiveShadingRateKhr"
      [] built_in = "DeviceIndex" -> "spv::DeviceIndex"
      [] built_in = "ViewIndex" -> "spv::ViewIndex"
      [] built_in = "ShadingRateKhr" -> "spv::ShadingRateKhr"
      [] built_in = "BaryCoordNoPerspAmd" -> "spv::BaryCoordNoPerspAmd"
      [] built_in = "BaryCoordNoPerspCentroidAmd" -> "spv::BaryCoordNoPerspCentroidAmd"
      [] built_in = "BaryCoordNoPerspSampleAmd" -> "spv::BaryCoordNoPerspSampleAmd"
      [] built_in = "BaryCoordSmoothAmd" -> "spv::BaryCoordSmoothAmd"
      [] built_in = "BaryCoordSmoothCentroidAmd" -> "spv::BaryCoordSmoothCentroidAmd"
      [] built_in = "BaryCoordSmoothSampleAmd" -> "spv::BaryCoordSmoothSampleAmd"
      [] built_in = "BaryCoordPullModelAmd" -> "spv::BaryCoordPullModelAmd"
      [] built_in = "FragStencilRefExt" -> "spv::FragStencilRefExt"
      [] built_in = "ViewportMaskNv" -> "spv::ViewportMaskNv"
      [] built_in = "SecondaryPositionNv" -> "spv::SecondaryPositionNv"
      [] built_in = "SecondaryViewportMaskNv" -> "spv::SecondaryViewportMaskNv"
      [] built_in = "PositionPerViewNv" -> "spv::PositionPerViewNv"
      [] built_in = "ViewportMaskPerViewNv" -> "spv::ViewportMaskPerViewNv"
      [] built_in = "FullyCoveredExt" -> "spv::FullyCoveredExt"
      [] built_in = "TaskCountNv" -> "spv::TaskCountNv"
      [] built_in = "PrimitiveCountNv" -> "spv::PrimitiveCountNv"
      [] built_in = "PrimitiveIndicesNv" -> "spv::PrimitiveIndicesNv"
      [] built_in = "ClipDistancePerViewNv" -> "spv::ClipDistancePerViewNv"
      [] built_in = "CullDistancePerViewNv" -> "spv::CullDistancePerViewNv"
      [] built_in = "LayerPerViewNv" -> "spv::LayerPerViewNv"
      [] built_in = "MeshViewCountNv" -> "spv::MeshViewCountNv"
      [] built_in = "MeshViewIndicesNv" -> "spv::MeshViewIndicesNv"
      [] built_in = "BaryCoordKhr" -> "spv::BaryCoordKhr"
      [] built_in = "BaryCoordNoPerspKhr" -> "spv::BaryCoordNoPerspKhr"
      [] built_in = "FragSizeExt" -> "spv::FragSizeExt"
      [] built_in = "FragInvocationCountExt" -> "spv::FragInvocationCountExt"
      [] built_in = "PrimitivePointIndicesExt" -> "spv::PrimitivePointIndicesExt"
      [] built_in = "PrimitiveLineIndicesExt" -> "spv::PrimitiveLineIndicesExt"
      [] built_in = "PrimitiveTriangleIndicesExt" -> "spv::PrimitiveTriangleIndicesExt"
      [] built_in = "CullPrimitiveExt" -> "spv::CullPrimitiveExt"
      [] built_in = "LaunchIdKhr" -> "spv::LaunchIdKhr"
      [] built_in = "LaunchSizeKhr" -> "spv::LaunchSizeKhr"
      [] built_in = "WorldRayOriginKhr" -> "spv::WorldRayOriginKhr"
      [] built_in = "WorldRayDirectionKhr" -> "spv::WorldRayDirectionKhr"
      [] built_in = "ObjectRayOriginKhr" -> "spv::ObjectRayOriginKhr"
      [] built_in = "ObjectRayDirectionKhr" -> "spv::ObjectRayDirectionKhr"
      [] built_in = "RayTminKhr" -> "spv::RayTminKhr"
      [] built_in = "RayTmaxKhr" -> "spv::RayTmaxKhr"
      [] built_in = "InstanceCustomIndexKhr" -> "spv::InstanceCustomIndexKhr"
      [] built_in = "ObjectToWorldKhr" -> "spv::ObjectToWorldKhr"
      [] built_in = "WorldToObjectKhr" -> "spv::WorldToObjectKhr"
      [] built_in = "HitTnv" -> "spv::HitTnv"
      [] built_in = "HitKindKhr" -> "spv::HitKindKhr"
      [] built_in = "CurrentRayTimeNv" -> "spv::CurrentRayTimeNv"
      [] built_in = "IncomingRayFlagsKhr" -> "spv::IncomingRayFlagsKhr"
      [] built_in = "RayGeometryIndexKhr" -> "spv::RayGeometryIndexKhr"
      [] built_in = "WarpsPerSmnv" -> "spv::WarpsPerSmnv"
      [] built_in = "SmCountNv" -> "spv::SmCountNv"
      [] built_in = "WarpIdnv" -> "spv::WarpIdnv"
      [] built_in = "Smidnv" -> "spv::Smidnv"
      [] built_in = "CullMaskKhr" -> "spv::CullMaskKhr"


----------------------------------------------------------------------------
(* Flattening of the three override maps (set_compiler_options) *)

\* The keys of a map, largest first
RECURSIVE ResourceBindingKeysDescending(_)
ResourceBindingKeysDescending(keys) ==
    IF keys = {} THEN <<>>
    ELSE LET k == CHOOSE x \in keys :
                      \A y \in keys \ {x} : ResourceBindingLocationLess(y, x)
         IN  <<k>> \o ResourceBindingKeysDescending(keys \ {k})

\* BTreeMap iteration: the keys of a map in ascending order
RECURSIVE ResourceBindingKeys(_)
ResourceBindingKeys(keys) ==
    IF keys = {} THEN <<>>
    ELSE LET k == CHOOSE x \in keys :
                      \A y \in keys \ {x} : ResourceBindingLocationLess(x, y)
         IN  <<k>> \o ResourceBindingKeys(keys \ {k})

RECURSIVE VertexAttributeKeys(_)
VertexAttributeKeys(keys) ==
    IF keys = {} THEN <<>>
    ELSE LET k == CHOOSE x \in keys :
                      \A y \in keys \ {x} : VertexAttributeLocationLess(x, y)
         IN  <<k>> \o VertexAttributeKeys(keys \ {k})

RECURSIVE SamplerKeys(_)
SamplerKeys(keys) ==
    IF keys = {} THEN <<>>
    ELSE LET k == CHOOSE x \in keys :
                      \A y \in keys \ {x} : SamplerLocationLess(x, y)
         IN  <<k>> \o SamplerKeys(keys \ {k})

\* The record with the texture and sampler slots exchanged
MSLResourceBindingSwapped(loc, res) ==
    [stage |-> loc.stage,
     basetype |-> res.base_type,
     desc_set |-> loc.desc_set,
     binding |-> loc.binding,
     msl_buffer |-> res.buffer_id,
     msl_texture |-> res.sampler_id,
     msl_sampler |-> res.texture_id,
     count |-> res.count]

MSLResourceBinding(loc, res) ==
    [stage |-> loc.stage,
     basetype |-> res.base_type,
     desc_set |-> loc.desc_set,
     binding |-> loc.binding,
     msl_buffer |-> res.buffer_id,
     msl_texture |-> res.texture_id,
     msl_sampler |-> res.sampler_id,
     count |-> res.count]

MSLShaderInterfaceVariable(loc, vat) ==
    [location |-> loc,
     component |-> 0,
     format |-> vat.format,
     builtin |-> built_in_as_raw(vat.built_in),
     vecsize |-> vat.vecsize,
     rate |-> vat.rate]

\* the clamp counted as set only when both bounds were changed
LodClampEnableBoth(data) ==
    data.lod_clamp_min # LodZero /\ data.lod_clamp_max # LodMax
\* data.lod_clamp_min != LodBase16::ZERO || data.lod_clamp_max != LodBase16::MAX
LodClampEnable(data) ==
    data.lod_clamp_min # LodZero \/ data.lod_clamp_max # LodMax

ScMslConstSamplerMapping(loc, data) ==
    [desc_set |-> loc.desc_set,
     binding |-> loc.binding,
     sampler |->
        [coord |-> data.coord,
         min_filter |-> data.min_filter,
         mag_filter |-> data.mag_filter,
         mip_filter |-> data.mip_filter,
         s_address |-> data.s_address,
         t_address |-> data.t_address,
         r_address |-> data.r_address,
         compare_func |-> data.compare_func,
         border_color |-> data.border_color,
         lod_clamp_min |-> LodToF32(data.lod_clamp_min),
         lod_clamp_max |-> LodToF32(data.lod_clamp_max),
         max_anisotropy |-> data.max_anisotropy,
         compare_enable |-> data.compare_func # "Always",
         lod_clamp_enable |-> LodClampEnable(data),
         anisotropy_enable |-> data.max_anisotropy # 0,
         bpc |-> data.bpc,
         chroma_filter |-> data.chroma_filter,
         planes |-> data.planes,
         resolution |-> data.resolution,
         swizzle |-> data.swizzle,
         x_chroma_offset |-> data.x_chroma_offset,
         y_chroma_offset |-> data.y_chroma_offset,
         ycbcr_conversion_enable |-> data.ycbcr_conversion_enable,
         ycbcr_model |-> data.ycbcr_model,
         ycbcr_range |-> data.ycbcr_range]]

\* clear() then extend(map.iter().map(..)) for each of the three tables
FlattenResourceBindings(m) ==
    LET ks == ResourceBindingKeys(DOMAIN m)
    IN  [i \in 1..Len(ks) |-> MSLResourceBinding(ks[i], m[ks[i]])]
FlattenVertexAttributes(m) ==
    LET ks == VertexAttributeKeys(DOMAIN m)
    IN  [i \in 1..Len(ks) |-> MSLShaderInterfaceVariable(ks[i], m[ks[i]])]
FlattenConstSamplers(m) ==
    LET ks == SamplerKeys(DOMAIN m)
    IN  [i \in 1..Len(ks) |-> ScMslConstSamplerMapping(ks[i], m[ks[i]])]

\* TargetData of a freshly parsed handle, and after set_compiler_options
EmptyTargetData ==
    [vertex_attribute_overrides |-> <<>>,
     resource_binding_overrides |-> <<>>,
     const_samplers |-> <<>>]
FlattenOptions(options) ==
    [vertex_attribute_overrides |->
         FlattenVertexAttributes(options.vertex_attribute_overrides),
     resource_binding_overrides |->
         FlattenResourceBindings(options.resource_binding_overrides),
     const_samplers |-> FlattenConstSamplers(options.const_samplers)]

\* table.extend(records) on a table that was not cleared
ExtendOnly(table, records) == table \o records
\* table.clear(); table.extend(records)
ClearAndExtend(table, records) == records

\* The three tables of a handle after set_compiler_options(options) got past
\* the native commands
StoreOptions(td, options) ==
    [vertex_attribute_overrides |->
         ClearAndExtend(td.vertex_attribute_overrides,
             FlattenVertexAttributes(options.vertex_attribute_overrides)),
     resource_binding_overrides |->
         ClearAndExtend(td.resource_binding_overrides,
             FlattenResourceBindings(options.resource_binding_overrides)),
     const_samplers |->
         ClearAndExtend(td.const_samplers,
             FlattenConstSamplers(options.const_samplers))]

----------------------------------------------------------------------------
(* Option values the caller passes *)

RbLoc(stage, set, binding) ==
    [stage |-> stage, desc_set |-> set, binding |-> binding]
SLoc(set, binding) == [desc_set |-> set, binding |-> binding]

ImageBinding ==
    [base_type |-> "Image", buffer_id |-> 5, texture_id |-> 6,
     sampler_id |-> 7, count |-> 0]
BufferBinding ==
    [base_type |-> "Struct", buffer_id |-> 2, texture_id |-> 0,
     sampler_id |-> 0, count |-> 1]

PlainAttribute ==
    [buffer_id |-> 1, format |-> "Other", rate |-> "PerVertex",
     built_in |-> "None", vecsize |-> 0]
PositionAttribute ==
    [buffer_id |-> 0, format |-> "UInt8", rate |-> "PerVertex",
     built_in |-> "Position", vecsize |-> 4]

PlainSampler ==
    [coord |-> "Normalized", min_filter |-> "Nearest", mag_filter |-> "Nearest",
     mip_filter |-> "None", s_address |-> "ClampToEdge",
     t_address |-> "ClampToEdge", r_address |-> "ClampToEdge",
     compare_func |-> "Always", border_color |-> "TransparentBlack",
     lod_clamp_min |-> LodZero, lod_clamp_max |-> LodMax, max_anisotropy |-> 0,
     planes |-> 0, resolution |-> "_444", chroma_filter |-> "Nearest",
     x_chroma_offset |-> "CositedEven", y_chroma_offset |-> "CositedEven",
     swizzle |-> <<"Identity", "Identity", "Identity", "Identity">>,
     ycbcr_conversion_enable |-> FALSE, ycbcr_model |-> "RgbIdentity",
     ycbcr_range |-> "ItuFull", bpc |-> 8]
ShadowSampler ==
    [PlainSampler EXCEPT !.compare_func = "Less", !.lod_clamp_min = 16,
                         !.max_anisotropy = 4]
ClampedSampler == [PlainSampler EXCEPT !.lod_clamp_max = 128]

OptionsMain == [DefaultOptions EXCEPT !.entry_point = Some(<<NameMain, "Vertex">>)]
OptionsFrag ==
    [DefaultOptions EXCEPT !.entry_point = Some(<<NameFrag, "Fragment">>),
                           !.enable_rasterization = FALSE]
OptionsNul ==
    [DefaultOptions EXCEPT
        !.entry_point = Some(<<NameNul, "Vertex">>),
        !.enable_rasterization = FALSE,
        !.resource_binding_overrides = RbLoc("Vertex", 0, 0) :> ImageBinding]
OptionsOverrides ==
    [DefaultOptions EXCEPT
        !.resource_binding_overrides =
            (RbLoc("Fragment", 0, 1) :> BufferBinding)
                @@ (RbLoc("Vertex", 1, 0) :> BufferBinding)
                @@ (RbLoc("Vertex", 0, 0) :> ImageBinding),
        !.vertex_attribute_overrides =
            (1 :> PlainAttribute) @@ (0 :> PositionAttribute),
        !.const_samplers =
            (SLoc(1, 0) :> ShadowSampler) @@ (SLoc(0, 2) :> PlainSampler)]
OptionsOne ==
    [OptionsMain EXCEPT
        !.resource_binding_overrides = RbLoc("Vertex", 0, 0) :> ImageBinding,
        !.vertex_attribute_overrides = 1 :> PlainAttribute,
        !.const_samplers = SLoc(0, 0) :> ClampedSampler]

\* every boolean option but enable_rasterization away from its default
OptionsFlags ==
    [DefaultOptions EXCEPT
        !.vertex = [invert_y |-> TRUE, transform_clip_space |-> TRUE],
        !.enable_point_size_builtin = FALSE,
        !.capture_output_to_buffer = TRUE,
        !.swizzle_texture_samples = TRUE,
        !.tessellation_domain_origin_lower_left = TRUE,
        !.enable_argument_buffers = TRUE,
        !.pad_fragment_output_components = TRUE,
        !.force_native_arrays = TRUE,
        !.force_zero_initialized_variables = TRUE,
        !.force_active_argument_buffer_resources = TRUE]

AllOptions ==
    {DefaultOptions, OptionsMain, OptionsFrag, OptionsNul, OptionsOverrides,
     OptionsOne, OptionsFlags}


----------------------------------------------------------------------------
(* State: handles, native instances, the last call *)

\* A binding that holds no handle (never assigned, moved from, or dropped)
EmptySlot ==
    [live |-> FALSE,
     sc_compiler |-> NullPtr,
     has_been_compiled |-> FALSE,
     target_data |-> EmptyTargetData]

\* An address with no instance; deletes counts the delete commands the
\* address received since the engine last handed it out
NoInstance ==
    [alive |-> FALSE, deletes |-> 0, entry_point |-> None, options |-> None]
NewInstance ==
    [alive |-> TRUE, deletes |-> 0, entry_point |-> None, options |-> None]

NativeDelete(nat, p) ==
    [nat EXCEPT ![p] = [alive |-> FALSE,
                        deletes |-> IF @.deletes < 2 THEN @.deletes + 1 ELSE 2,
                        entry_point |-> None,
                        options |-> None]]

\* The record of a call: the operation, the slot of the handle, the argument
\* the claims look at, what the handler returned, and the handle as it was
\* when the call was made
Call(op, h, arg, r) ==
    [op |-> op, h |-> h, arg |-> arg, res |-> r.res, trace |-> r.trace,
     bufs |-> r.bufs,
     before |-> IF h \in Slots THEN handles[h] ELSE EmptySlot]

\* What a handle has seen: whether compile was called on it and whether a
\* compile call returned Ok; the options of the most recent
\* set_compiler_options call (asked) and of the most recent one that
\* returned Ok (options)
NoHistory ==
    [called |-> FALSE, succeeded |-> FALSE, asked |-> None, options |-> None]
\* The history of a handle after a compile call that returned r
AfterCompile(hs, r) ==
    [hs EXCEPT !.called = TRUE, !.succeeded = hs.succeeded \/ r.res.ok]
\* The history of a handle after set_compiler_options(options) returned r
AfterSetOptions(hs, options, r) ==
    IF r.res.ok
    THEN [hs EXCEPT !.asked = Some(options), !.options = Some(options)]
    ELSE [hs EXCEPT !.asked = Some(options)]

Init ==
    /\ handles = [s \in Slots |-> EmptySlot]
    /\ native = [p \in Ptrs |-> NoInstance]
    /\ call = Call("none", 0, NoValue, Ret(<<>>, Ok(NoValue), {}))
    /\ hist = [s \in Slots |-> NoHistory]

Live(s) == handles[s].live

----------------------------------------------------------------------------
(* Lifecycle: parse, move, drop *)

\* Parse::parse for Ast<msl::Target>: the engine answers st and, on success,
\* hands out the address p of a new instance
Parse(s, st, p) ==
    /\ ~Live(s)
    /\ ~native[p].alive
    /\ LET t == <<CmdEv("msl_new", <<>>, st)>>
       IN  IF st = "Success"
           THEN /\ handles' = [handles EXCEPT ![s] =
                                  [live |-> TRUE,
                                   sc_compiler |-> p,
                                   has_been_compiled |-> FALSE,
                                   target_data |-> EmptyTargetData]]
                /\ native' = [native EXCEPT ![p] = NewInstance]
                /\ hist' = [hist EXCEPT ![s] = NoHistory]
                /\ call' = Call("parse", s, NoValue, Ret(t, Ok(NoValue), {}))
           ELSE /\ UNCHANGED <<handles, native, hist>>
                /\ call' = Call("parse", s, NoValue, Ret(t, CheckErr(st), {}))

\* Ast has no Clone or Copy: assigning a handle to another binding moves it,
\* and the binding it came from no longer holds a value
MoveCopy(a, b) ==
    /\ Live(a)
    /\ ~Live(b)
    /\ handles' = [handles EXCEPT ![b] = handles[a]]
    /\ hist' = [hist EXCEPT ![b] = hist[a]]
    /\ UNCHANGED native
    /\ call' = Call("move", b, NoValue, Ret(<<>>, Ok(NoValue), {}))

Move(a, b) ==
    /\ Live(a)
    /\ ~Live(b)
    /\ handles' = [handles EXCEPT ![b] = handles[a], ![a] = EmptySlot]
    /\ hist' = [hist EXCEPT ![b] = hist[a], ![a] = NoHistory]
    /\ UNCHANGED native
    /\ call' = Call("move", b, NoValue, Ret(<<>>, Ok(NoValue), {}))

DropIfCompiled(s) ==
    /\ Live(s)
    /\ LET p == handles[s].sc_compiler
           del == handles[s].has_been_compiled
       IN  /\ native' = IF del THEN NativeDelete(native, p) ELSE native
           /\ handles' = [handles EXCEPT ![s] = EmptySlot]
           /\ hist' = [hist EXCEPT ![s] = NoHistory]
           /\ call' = Call("drop", s, p,
                           Ret(IF del THEN <<CmdEv("delete", <<p>>, "Success")>>
                               ELSE <<>>, Ok(NoValue), {}))

\* Drop for Compiler: one delete command, whose result is not looked at
Drop(s) ==
    /\ Live(s)
    /\ LET p == handles[s].sc_compiler
       IN  /\ native' = NativeDelete(native, p)
           /\ handles' = [handles EXCEPT ![s] = EmptySlot]
           /\ hist' = [hist EXCEPT ![s] = NoHistory]
           /\ call' = Call("drop", s, p,
                           Ret(<<CmdEv("delete", <<p>>, "Success")>>,
                               Ok(NoValue), {}))

----------------------------------------------------------------------------
(* Strings received from the engine *)

StrBuf == Buf("string", 0, 0)

\* let s = read_string_from_ptr(ptr)?; check!(free_pointer(ptr)); Ok(s)
ReadStringThenFree(t, b, str, f) ==
    LET d == DecodeString(str)
        t1 == Append(t, DecodeEv(b, d.ok))
    IN  IF ~d.ok THEN Ret(t1, d, {b})
        ELSE LET t2 == Free(t1, b, f)
             IN  IF LastOk(t2) THEN Ret(t2, Ok(d.val), {b})
                 ELSE Ret(t2, LastErr(t2), {b})

----------------------------------------------------------------------------
(* compile and the Compiled state *)

\* compile_internal handing empty arrays to the engine
compile_internal_without_tables(h, st, str, f) ==
    LET td == EmptyTargetData
        t == <<CmdEv("msl_compile",
                     <<td.vertex_attribute_overrides,
                       td.resource_binding_overrides,
                       td.const_samplers>>, st)>>
    IN  IF st # "Success" THEN Ret(t, CheckErr(st), {})
        ELSE LET d == DecodeString(str)
                 t1 == Append(t, DecodeEv(StrBuf, d.ok))
             IN  IF ~d.ok THEN Ret(t1, Err("Unhandled", NoValue), {StrBuf})
                 ELSE LET t2 == Free(t1, StrBuf, f)
                      IN  IF LastOk(t2) THEN Ret(t2, Ok(d.val), {StrBuf})
                          ELSE Ret(t2, LastErr(t2), {StrBuf})

\* Ast<msl::Target>::compile_internal
compile_internal(h, st, str, f) ==
    LET td == h.target_data
        t == <<CmdEv("msl_compile",
                     <<td.vertex_attribute_overrides,
                       td.resource_binding_overrides,
                       td.const_samplers>>, st)>>
    IN  IF st # "Success" THEN Ret(t, CheckErr(st), {})
        ELSE LET d == DecodeString(str)
                 t1 == Append(t, DecodeEv(StrBuf, d.ok))
             IN  IF ~d.ok THEN Ret(t1, Err("Unhandled", NoValue), {StrBuf})
                 ELSE LET t2 == Free(t1, StrBuf, f)
                      IN  IF LastOk(t2) THEN Ret(t2, Ok(d.val), {StrBuf})
                          ELSE Ret(t2, LastErr(t2), {StrBuf})

CompileFlagFromResult(s, st, str, f) ==
    /\ Live(s)
    /\ LET r == compile_internal(handles[s], st, str, f)
       IN  /\ handles' = [handles EXCEPT ![s].has_been_compiled = r.res.ok]
           /\ hist' = [hist EXCEPT ![s] = AfterCompile(@, r)]
           /\ call' = Call("compile", s, NoValue, r)
    /\ UNCHANGED native

\* compile with the Compiled flag kept in one place for every handle
CompileSharedFlag(s, st, str, f) ==
    /\ Live(s)
    /\ LET r == compile_internal(handles[s], st, str, f)
       IN  /\ handles' = [t \in Slots |->
                             IF handles[t].live
                             THEN [handles[t] EXCEPT !.has_been_compiled = TRUE]
                             ELSE handles[t]]
           /\ hist' = [hist EXCEPT ![s] = AfterCompile(@, r)]
           /\ call' = Call("compile", s, NoValue, r)
    /\ UNCHANGED native

\* Ast::compile (inherent): sets the flag, then calls Compile::compile
Compile(s, st, str, f) ==
    /\ Live(s)
    /\ LET r == compile_internal(handles[s], st, str, f)
       IN  /\ handles' = [handles EXCEPT ![s].has_been_compiled = TRUE]
           /\ hist' = [hist EXCEPT ![s] = AfterCompile(@, r)]
           /\ call' = Call("compile", s, NoValue, r)
    /\ UNCHANGED native

\* <Ast<msl::Target> as Compile>::compile, called through the public trait
TraitCompile(s, st, str, f) ==
    /\ Live(s)
    /\ LET r == compile_internal(handles[s], st, str, f)
       IN  /\ hist' = [hist EXCEPT ![s] = AfterCompile(@, r)]
           /\ call' = Call("Compile::compile", s, NoValue, r)
    /\ UNCHANGED <<handles, native>>

\* Compiler::get_cleansed_entry_point_name
compiler_get_cleansed_entry_point_name(name, model, st, str, f) ==
    LET ep == CStringNew(name)
    IN  IF ~ep.ok THEN Ret(<<>>, Err("Unhandled", NoValue), {})
        ELSE LET t == <<CmdEv("get_cleansed_entry_point_name",
                              <<ep.bytes, model>>, st)>>
             IN  IF st # "Success" THEN Ret(t, CheckErr(st), {})
                 ELSE ReadStringThenFree(t, StrBuf, str, f)

CleansedAlways(h, name, model, st, str, f) ==
    compiler_get_cleansed_entry_point_name(name, model, st, str, f)

\* Ast::get_cleansed_entry_point_name: the local precondition
ast_get_cleansed_entry_point_name(h, name, model, st, str, f) ==
    IF h.has_been_compiled
    THEN compiler_get_cleansed_entry_point_name(name, model, st, str, f)
    ELSE Ret(<<>>, Err("CompilationError", CompileFirstMessage), {})

GetCleansedEntryPointName(s, name, model, st, str, f) ==
    /\ Live(s)
    /\ UNCHANGED <<handles, native, hist>>
    /\ call' = Call("get_cleansed_entry_point_name", s, <<name, model>>,
                    ast_get_cleansed_entry_point_name(
                        handles[s], name, model, st, str, f))

----------------------------------------------------------------------------
(* set_compiler_options (msl.rs) *)

\* The engine applies a command that it answers with Success
NativeSetEntryPoint(nat, p, name, model) ==
    [nat EXCEPT ![p].entry_point = Some(<<name, model>>)]
NativeSetOptions(nat, p, raw) == [nat EXCEPT ![p].options = Some(raw)]

\* set_compiler_options selecting an entry point of its own when given none
SetCompilerOptionsSelectingFirst(s, options, st1, st2) ==
    /\ Live(s)
    /\ LET p == handles[s].sc_compiler
           has_ep == TRUE
           name == IF options.entry_point # None THEN options.entry_point[1][1]
                   ELSE NameFrag
           model == IF options.entry_point # None THEN options.entry_point[1][2]
                    ELSE "Fragment"
           name_raw == IF has_ep THEN CStringNew(name)
                       ELSE [ok |-> TRUE, bytes |-> <<>>]
           t1 == IF has_ep
                 THEN <<CmdEv("set_entry_point", <<name_raw.bytes, model>>, st1)>>
                 ELSE <<>>
           nat1 == IF has_ep /\ st1 = "Success"
                   THEN NativeSetEntryPoint(native, p, name, model)
                   ELSE native
           raw_options == RawOptions(options)
           t2 == Append(t1, CmdEv("msl_set_options", <<raw_options>>, st2))
           r == IF ~name_raw.ok THEN Ret(<<>>, Err("Unhandled", NoValue), {})
                ELSE IF has_ep /\ st1 # "Success" THEN Ret(t1, CheckErr(st1), {})
                ELSE IF st2 # "Success" THEN Ret(t2, CheckErr(st2), {})
                ELSE Ret(t2, Ok(NoValue), {})
       IN  /\ call' = Call("set_compiler_options", s, options, r)
           /\ hist' = [hist EXCEPT ![s] = AfterSetOptions(@, options, r)]
           /\ IF ~name_raw.ok \/ (has_ep /\ st1 # "Success")
              THEN UNCHANGED <<handles, native>>
              ELSE IF st2 # "Success"
              THEN /\ UNCHANGED handles
                   /\ native' = nat1
              ELSE /\ handles' = [handles EXCEPT
                                     ![s].target_data = StoreOptions(@, options)]
                   /\ native' = NativeSetOptions(nat1, p, raw_options)

SetCompilerOptions(s, options, st1, st2) ==
    /\ Live(s)
    /\ LET p == handles[s].sc_compiler
           has_ep == options.entry_point # None
           name == options.entry_point[1][1]
           model == options.entry_point[1][2]
           name_raw == IF has_ep THEN CStringNew(name)
                       ELSE [ok |-> TRUE, bytes |-> <<>>]
           t1 == IF has_ep
                 THEN <<CmdEv("set_entry_point", <<name_raw.bytes, model>>, st1)>>
                 ELSE <<>>
           nat1 == IF has_ep /\ st1 = "Success"
                   THEN NativeSetEntryPoint(native, p, name, model)
                   ELSE native
           raw_options == RawOptions(options)
           t2 == Append(t1, CmdEv("msl_set_options", <<raw_options>>, st2))
           r == IF ~name_raw.ok THEN Ret(<<>>, Err("Unhandled", NoValue), {})
                ELSE IF has_ep /\ st1 # "Success" THEN Ret(t1, CheckErr(st1), {})
                ELSE IF st2 # "Success" THEN Ret(t2, CheckErr(st2), {})
                ELSE Ret(t2, Ok(NoValue), {})
       IN  /\ call' = Call("set_compiler_options", s, options, r)
           /\ hist' = [hist EXCEPT ![s] = AfterSetOptions(@, options, r)]
           /\ IF ~name_raw.ok \/ (has_ep /\ st1 # "Success")
              THEN UNCHANGED <<handles, native>>
              ELSE IF st2 # "Success"
              THEN /\ UNCHANGED handles
                   /\ native' = nat1
              ELSE /\ handles' = [handles EXCEPT
                                     ![s].target_data = StoreOptions(@, options)]
                   /\ native' = NativeSetOptions(nat1, p, raw_options)

\* the answer of the engine handed on as it is
is_rasterization_enabled_as_answered(st, is_disabled) ==
    LET t == <<CmdEv("msl_get_is_rasterization_disabled", <<>>, st)>>
    IN  IF st # "Success" THEN Ret(t, CheckErr(st), {})
        ELSE Ret(t, Ok(is_disabled), {})

\* Ast::is_rasterization_enabled: check!(command); Ok(!is_disabled)
is_rasterization_enabled(st, is_disabled) ==
    LET t == <<CmdEv("msl_get_is_rasterization_disabled", <<>>, st)>>
    IN  IF st # "Success" THEN Ret(t, CheckErr(st), {})
        ELSE Ret(t, Ok(~is_disabled), {})

IsRasterizationEnabled(s, st, is_disabled) ==
    /\ Live(s)
    /\ UNCHANGED <<handles, native, hist>>
    /\ call' = Call("is_rasterization_enabled", s, is_disabled,
                    is_rasterization_enabled(st, is_disabled))

----------------------------------------------------------------------------
(* Reflection queries that receive native buffers (compiler.rs) *)

\* Compiler::get_name
get_name(id, st, str, f) ==
    LET t == <<CmdEv("get_name", <<id>>, st)>>
    IN  IF st # "Success" THEN Ret(t, CheckErr(st), {})
        ELSE ReadStringThenFree(t, StrBuf, str, f)

\* Compiler::get_member_name
get_member_name(id, index, st, str, f) ==
    LET t == <<CmdEv("get_member_name", <<id, index>>, st)>>
    IN  IF st # "Success" THEN Ret(t, CheckErr(st), {})
        ELSE ReadStringThenFree(t, StrBuf, str, f)

EpArray == Buf("entry_points", 0, 0)
EpName(k) == Buf("entry_point_name", 0, k)

\* The closure of get_entry_points, element k onwards; collect() stops at
\* the first element that yields an error
RECURSIVE MapEntryPoints(_, _, _, _, _)
MapEntryPoints(t, raw, k, acc, f) ==
    IF k > Len(raw) THEN [trace |-> t, res |-> Ok(acc)]
    ELSE LET d == DecodeString(raw[k].name)
             t1 == t \o <<ReadEv(EpArray), DecodeEv(EpName(k), d.ok)>>
             entry_point ==
                 [name |-> d.val,
                  execution_model |-> raw[k].execution_model,
                  work_group_size |-> [x |-> raw[k].work_group_size_x,
                                       y |-> raw[k].work_group_size_y,
                                       z |-> raw[k].work_group_size_z]]
         IN  IF ~d.ok THEN [trace |-> t1, res |-> d]
             ELSE LET t2 == Free(t1, EpName(k), f)
                  IN  IF ~LastOk(t2) THEN [trace |-> t2, res |-> LastErr(t2)]
                      ELSE MapEntryPoints(t2, raw, k + 1,
                                          Append(acc, entry_point), f)

\* Compiler::get_entry_points
get_entry_points(st, raw, f) ==
    LET t == <<CmdEv("get_entry_points", <<>>, st)>>
        bufs == {EpArray} \cup {EpName(k) : k \in 1..Len(raw)}
    IN  IF st # "Success" THEN Ret(t, CheckErr(st), {})
        ELSE LET m == MapEntryPoints(t, raw, 1, <<>>, f)
                 t2 == Free(m.trace, EpArray, f)
             IN  IF ~LastOk(t2) THEN Ret(t2, LastErr(t2), bufs)
                 ELSE Ret(t2, m.res, bufs)

\* ShaderResources has 13 Resource categories followed by 2 built-in ones
NumResourceCategories == 13
NumCategories == 15
Categories == 1..NumCategories
IsBuiltInCategory(c) == c > NumResourceCategories

ResArray(c) == Buf("resources", c, 0)
ResName(c, k) == Buf("resource_name", c, k)

Panic(msg) == [ok |-> FALSE, err |-> "Panic", val |-> msg]

\* The closure of fill_resources / fill_builtin_resources, element k onwards
RECURSIVE MapResources(_, _, _, _, _, _)
MapResources(t, arr, c, k, acc, f) ==
    IF k > Len(arr) THEN [trace |-> t, res |-> Ok(acc)]
    ELSE LET d == DecodeString(arr[k].name)
             t1 == t \o <<ReadEv(ResArray(c)), DecodeEv(ResName(c, k), d.ok)>>
             resource ==
                 [id |-> arr[k].id,
                  type_id |-> arr[k].type_id,
                  base_type_id |-> arr[k].base_type_id,
                  name |-> d.val]
             item == IF IsBuiltInCategory(c)
                     THEN [builtin |-> BuiltInFromRaw(arr[k].builtin),
                           value_type_id |-> arr[k].value_type_id,
                           resource |-> resource]
                     ELSE resource
         IN  IF ~d.ok THEN [trace |-> t1, res |-> d]
             ELSE LET t2 == Free(t1, ResName(c, k), f)
                  IN  IF ~LastOk(t2) THEN [trace |-> t2, res |-> LastErr(t2)]
                      ELSE IF IsBuiltInCategory(c) /\ arr[k].builtin = "spv::Max"
                      THEN [trace |-> t2, res |-> Panic("invalid builtin")]
                      ELSE MapResources(t2, arr, c, k + 1, Append(acc, item), f)

\* fill_resources / fill_builtin_resources: the array is released after the
\* elements were collected, then the collected result is returned
fill_resources(t, arr, c, f) ==
    LET m == MapResources(t, arr, c, 1, <<>>, f)
        t2 == Free(m.trace, ResArray(c), f)
    IN  IF m.res.err = "Panic" THEN m
        ELSE IF ~LastOk(t2) THEN [trace |-> t2, res |-> LastErr(t2)]
        ELSE [trace |-> t2, res |-> m.res]

\* let <category> = fill_resources(&raw.<category>)?; for each category in turn
RECURSIVE FillCategories(_, _, _, _, _)
FillCategories(t, raw, c, acc, f) ==
    IF c > NumCategories THEN [trace |-> t, res |-> Ok(acc)]
    ELSE LET r == fill_resources(t, raw[c], c, f)
         IN  IF ~r.res.ok THEN r
             ELSE FillCategories(r.trace, raw, c + 1, Append(acc, r.res.val), f)

\* Compiler::get_shader_resources
get_shader_resources(st, raw, f) ==
    LET t == <<CmdEv("get_shader_resources", <<>>, st)>>
        bufs == {ResArray(c) : c \in Categories}
                  \cup UNION {{ResName(c, k) : k \in 1..Len(raw[c])} :
                              c \in Categories}
    IN  IF st # "Success" THEN Ret(t, CheckErr(st), {})
        ELSE LET r == FillCategories(t, raw, 1, <<>>, f)
             IN  Ret(r.trace, r.res, bufs)


----------------------------------------------------------------------------
(* get_type and Type::from_raw *)

\* The variants of Type, one per native base type
BaseTypes ==
    {"Unknown", "Void", "Boolean", "Char", "Int", "UInt",
     "Int64", "UInt64", "AtomicCounter", "Half", "Float",
     "Double", "Struct", "Image", "SampledImage", "Sampler",
     "SByte", "UByte", "Short", "UShort", "ControlPointArray",
     "AccelerationStructure", "RayQuery", "Interpolant"}

\* The fields the enum Type declares for a variant
TypeFields(variant) ==
    CASE variant \in {"Unknown", "Void", "ControlPointArray",
                     "AccelerationStructure", "RayQuery", "Interpolant"} ->
            {}
      [] variant \in {"Boolean", "Int", "UInt", "Half", "Float", "Double"} ->
            {"vecsize", "columns", "array", "array_size_literal"}
      [] variant \in {"Char", "AtomicCounter", "Sampler"} ->
            {"array", "array_size_literal"}
      [] variant \in {"Int64", "UInt64", "SByte", "UByte", "Short", "UShort"} ->
            {"vecsize", "array", "array_size_literal"}
      [] variant \in {"Struct"} ->
            {"member_types", "array", "array_size_literal"}
      [] variant \in {"Image", "SampledImage"} ->
            {"array", "array_size_literal", "image"}

\* ImageType::from_raw with depth and arrayed taken from each other's field
ImageTypeFromRawCrossed(ty) ==
    [type_id |-> ty.type_,
     dim |-> ty.dim,
     depth |-> ty.arrayed,
     arrayed |-> ty.depth,
     ms |-> ty.ms,
     sampled |-> ty.sampled,
     format |-> ty.format]

\* ImageType::from_raw
ImageTypeFromRaw(ty) ==
    [type_id |-> ty.type_,
     dim |-> ty.dim,
     depth |-> ty.depth,
     arrayed |-> ty.arrayed,
     ms |-> ty.ms,
     sampled |-> ty.sampled,
     format |-> ty.format]

\* Type::from_raw: one arm per native base type
TypeFromRaw(ty, vecsize, columns, member_types, array, array_size_literal, image) ==
    CASE ty = "Unknown" -> [variant |-> "Unknown"]
      [] ty = "Void" -> [variant |-> "Void"]
      [] ty = "Boolean" ->
            [variant |-> "Boolean", vecsize |-> vecsize, columns |-> columns,
             array |-> array, array_size_literal |-> array_size_literal]
      [] ty = "Char" ->
            [variant |-> "Char", array |-> array,
             array_size_literal |-> array_size_literal]
      [] ty = "Int" ->
            [variant |-> "Int", vecsize |-> vecsize, columns |-> columns,
             array |-> array, array_size_literal |-> array_size_literal]
      [] ty = "UInt" ->
            [variant |-> "UInt", vecsize |-> vecsize, columns |-> columns,
             array |-> array, array_size_literal |-> array_size_literal]
      [] ty = "Int64" ->
            [variant |-> "Int64", vecsize |-> vecsize,
             array |-> array, array_size_literal |-> array_size_literal]
      [] ty = "UInt64" ->
            [variant |-> "UInt64", vecsize |-> vecsize,
             array |-> array, array_size_literal |-> array_size_literal]
      [] ty = "AtomicCounter" ->
            [variant |-> "AtomicCounter", array |-> array,
             array_size_literal |-> array_size_literal]
      [] ty = "Half" ->
            [variant |-> "Half", vecsize |-> vecsize, columns |-> columns,
             array |-> array, array_size_literal |-> array_size_literal]
      [] ty = "Float" ->
            [variant |-> "Float", vecsize |-> vecsize, columns |-> columns,
             array |-> array, array_size_literal |-> array_size_literal]
      [] ty = "Double" ->
            [variant |-> "Double", vecsize |-> vecsize, columns |-> columns,
             array |-> array, array_size_literal |-> array_size_literal]
      [] ty = "Struct" ->
            [variant |-> "Struct", member_types |-> member_types,
             array |-> array, array_size_literal |-> array_size_literal]
      [] ty = "Image" ->
            [variant |-> "Image", array |-> array,
             array_size_literal |-> array_size_literal,
             image |-> ImageTypeFromRaw(image)]
      [] ty = "SampledImage" ->
            [variant |-> "SampledImage", array |-> array,
             array_size_literal |-> array_size_literal,
             image |-> ImageTypeFromRaw(image)]
      [] ty = "Sampler" ->
            [variant |-> "Sampler", array |-> array,
             array_size_literal |-> array_size_literal]
      [] ty = "SByte" ->
            [variant |-> "SByte", vecsize |-> vecsize,
             array |-> array, array_size_literal |-> array_size_literal]
      [] ty = "UByte" ->
            [variant |-> "UByte", vecsize |-> vecsize,
             array |-> array, array_size_literal |-> array_size_literal]
      [] ty = "Short" ->
            [variant |-> "Short", vecsize |-> vecsize,
             array |-> array, array_size_literal |-> array_size_literal]
      [] ty = "UShort" ->
            [variant |-> "UShort", vecsize |-> vecsize,
             array |-> array, array_size_literal |-> array_size_literal]
      [] ty = "ControlPointArray" -> [variant |-> "ControlPointArray"]
      [] ty = "AccelerationStructure" -> [variant |-> "AccelerationStructure"]
      [] ty = "RayQuery" -> [variant |-> "RayQuery"]
      [] ty = "Interpolant" -> [variant |-> "Interpolant"]

TypeBuf == Buf("type", 0, 0)
MemberTypesBuf == Buf("member_types", 0, 0)
ArrayBuf == Buf("array", 0, 0)
ArraySizeLiteralBuf == Buf("array_size_literal", 0, 0)

\* read_into_vec_from_ptr(ptr, n): the first n elements behind ptr
ReadIntoVec(t, b, data, n) ==
    [trace |-> IF n > 0 THEN Append(t, ReadEv(b)) ELSE t,
     vec |-> SubSeq(data, 1, n)]

\* The buffers the engine allocates for a type record: a member or array
\* buffer exists only when its count is not zero
TypeBufs(raw) ==
    {TypeBuf}
      \cup (IF raw.member_types_size > 0 THEN {MemberTypesBuf} ELSE {})
      \cup (IF raw.array_size > 0 THEN {ArrayBuf, ArraySizeLiteralBuf} ELSE {})

\* get_type leaving the array-literal flags unread
get_type_without_literals(id, st, raw, f) ==
    LET t == <<CmdEv("get_type", <<id>>, st)>>
        t1 == Append(t, ReadEv(TypeBuf))
        member_types == ReadIntoVec(t1, MemberTypesBuf, raw.member_types,
                                    raw.member_types_size)
        array == ReadIntoVec(member_types.trace, ArrayBuf, raw.array,
                             raw.array_size)
        array_size_literal ==
            ReadIntoVec(array.trace, ArraySizeLiteralBuf,
                        raw.array_size_literal, 0)
        result == TypeFromRaw(raw.type_, raw.vecsize, raw.columns,
                              member_types.vec, array.vec,
                              array_size_literal.vec, raw.image)
        t2 == array_size_literal.trace
        t3 == IF raw.member_types_size > 0 THEN Free(t2, MemberTypesBuf, f)
              ELSE t2
        ok3 == raw.member_types_size > 0 => LastOk(t3)
        t4 == IF raw.array_size > 0 THEN Free(t3, ArrayBuf, f) ELSE t3
        ok4 == raw.array_size > 0 => LastOk(t4)
        t5 == Free(t4, TypeBuf, f)
        bufs == TypeBufs(raw)
    IN  IF st # "Success" THEN Ret(t, CheckErr(st), {})
        ELSE IF ~ok3 THEN Ret(t3, LastErr(t3), bufs)
        ELSE IF ~ok4 THEN Ret(t4, LastErr(t4), bufs)
        ELSE IF ~LastOk(t5) THEN Ret(t5, LastErr(t5), bufs)
        ELSE Ret(t5, Ok(result), bufs)

\* Compiler::get_type
get_type(id, st, raw, f) ==
    LET t == <<CmdEv("get_type", <<id>>, st)>>
        t1 == Append(t, ReadEv(TypeBuf))
        member_types == ReadIntoVec(t1, MemberTypesBuf, raw.member_types,
                                    raw.member_types_size)
        array == ReadIntoVec(member_types.trace, ArrayBuf, raw.array,
                             raw.array_size)
        array_size_literal ==
            ReadIntoVec(array.trace, ArraySizeLiteralBuf,
                        raw.array_size_literal, raw.array_size)
        result == TypeFromRaw(raw.type_, raw.vecsize, raw.columns,
                              member_types.vec, array.vec,
                              array_size_literal.vec, raw.image)
        t2 == array_size_literal.trace
        t3 == IF raw.member_types_size > 0 THEN Free(t2, MemberTypesBuf, f)
              ELSE t2
        ok3 == raw.member_types_size > 0 => LastOk(t3)
        t4 == IF raw.array_size > 0 THEN Free(t3, ArrayBuf, f) ELSE t3
        ok4 == raw.array_size > 0 => LastOk(t4)
        t5 == Free(t4, TypeBuf, f)
        bufs == TypeBufs(raw)
    IN  IF st # "Success" THEN Ret(t, CheckErr(st), {})
        ELSE IF ~ok3 THEN Ret(t3, LastErr(t3), bufs)
        ELSE IF ~ok4 THEN Ret(t4, LastErr(t4), bufs)
        ELSE IF ~LastOk(t5) THEN Ret(t5, LastErr(t5), bufs)
        ELSE Ret(t5, Ok(result), bufs)

----------------------------------------------------------------------------
(* Queries and setters that pass one command straight through *)

\* get_decoration, get_member_decoration, get_declared_struct_size, ...:
\* check!(command); Ok(result)
PassThrough(name, args, st, result) ==
    LET t == <<CmdEv(name, args, st)>>
    IN  IF st # "Success" THEN Ret(t, CheckErr(st), {})
        ELSE Ret(t, Ok(result), {})

\* set_name handing the name to the engine a second time
set_name_twice(id, name, st) ==
    LET c == CStringNew(name)
        t == <<CmdEv("set_name", <<id, c.bytes>>, st),
               CmdEv("set_name", <<id, c.bytes>>, st)>>
    IN  IF ~c.ok THEN Ret(<<>>, Err("Unhandled", NoValue), {})
        ELSE IF st # "Success" THEN Ret(t, CheckErr(st), {})
        ELSE Ret(t, Ok(NoValue), {})

\* Compiler::set_name
set_name(id, name, st) ==
    LET c == CStringNew(name)
    IN  IF c.ok THEN PassThrough("set_name", <<id, c.bytes>>, st, NoValue)
        ELSE Ret(<<>>, Err("Unhandled", NoValue), {})

GetName(s, id, st, str, f) ==
    /\ Live(s)
    /\ UNCHANGED <<handles, native, hist>>
    /\ call' = Call("get_name", s, id, get_name(id, st, str, f))

GetMemberName(s, id, index, st, str, f) ==
    /\ Live(s)
    /\ UNCHANGED <<handles, native, hist>>
    /\ call' = Call("get_member_name", s, id,
                    get_member_name(id, index, st, str, f))

GetEntryPoints(s, st, raw, f) ==
    /\ Live(s)
    /\ UNCHANGED <<handles, native, hist>>
    /\ call' = Call("get_entry_points", s, NoValue, get_entry_points(st, raw, f))

GetShaderResources(s, st, raw, f) ==
    /\ Live(s)
    /\ UNCHANGED <<handles, native, hist>>
    /\ call' = Call("get_shader_resources", s, NoValue,
                    get_shader_resources(st, raw, f))

GetType(s, id, st, raw, f) ==
    /\ Live(s)
    /\ UNCHANGED <<handles, native, hist>>
    /\ call' = Call("get_type", s, raw, get_type(id, st, raw, f))

\* Compiler::get_decoration
GetDecoration(s, id, decoration, st, result) ==
    /\ Live(s)
    /\ UNCHANGED <<handles, native, hist>>
    /\ call' = Call("get_decoration", s, id,
                    PassThrough("get_decoration", <<id, decoration>>, st, result))

\* set_decoration asking for compile first, as the cleansed name does
SetDecorationCompiledOnly(s, id, decoration, argument, st) ==
    /\ Live(s)
    /\ UNCHANGED <<handles, native, hist>>
    /\ call' = Call("set_decoration", s, id,
                    IF handles[s].has_been_compiled
                    THEN PassThrough("set_decoration", <<id, decoration, argument>>,
                                     st, NoValue)
                    ELSE Ret(<<>>, Err("CompilationError", CompileFirstMessage), {}))

\* Compiler::set_decoration
SetDecoration(s, id, decoration, argument, st) ==
    /\ Live(s)
    /\ UNCHANGED <<handles, native, hist>>
    /\ call' = Call("set_decoration", s, id,
                    PassThrough("set_decoration", <<id, decoration, argument>>,
                                st, NoValue))

SetName(s, id, name, st) ==
    /\ Live(s)
    /\ UNCHANGED <<handles, native, hist>>
    /\ call' = Call("set_name", s, id, set_name(id, name, st))

\* Compiler::set_member_name
set_member_name(id, index, name, st) ==
    LET c == CStringNew(name)
    IN  IF c.ok THEN PassThrough("set_member_name", <<id, index, c.bytes>>, st, NoValue)
        ELSE Ret(<<>>, Err("Unhandled", NoValue), {})

SetMemberName(s, id, index, name, st) ==
    /\ Live(s)
    /\ UNCHANGED <<handles, native, hist>>
    /\ call' = Call("set_member_name", s, id, set_member_name(id, index, name, st))

\* Compiler::unset_decoration
UnsetDecoration(s, id, decoration, st) ==
    /\ Live(s)
    /\ UNCHANGED <<handles, native, hist>>
    /\ call' = Call("unset_decoration", s, id,
                    PassThrough("unset_decoration", <<id, decoration>>, st, NoValue))

\* Compiler::set_member_decoration
SetMemberDecoration(s, id, index, decoration, argument, st) ==
    /\ Live(s)
    /\ UNCHANGED <<handles, native, hist>>
    /\ call' = Call("set_member_decoration", s, id,
                    PassThrough("set_member_decoration",
                                <<id, index, decoration, argument>>, st, NoValue))

WorkGroupBuf == Buf("work_group_size_constants", 0, 0)

\* The public value made from the three constants x, y, z of the buffer
WorkGroupConstants(raw) ==
    [x |-> [id |-> raw[1].id, constant_id |-> raw[1].constant_id],
     y |-> [id |-> raw[2].id, constant_id |-> raw[2].constant_id],
     z |-> [id |-> raw[3].id, constant_id |-> raw[3].constant_id]]

\* the query releasing the buffer first and reading x, y and z from it after
get_work_group_size_release_first(st, raw, f) ==
    LET t == <<CmdEv("get_work_group_size_specialization_constants", <<>>, st)>>
        t1 == Free(t, WorkGroupBuf, f)
        t2 == t1 \o <<ReadEv(WorkGroupBuf), ReadEv(WorkGroupBuf), ReadEv(WorkGroupBuf)>>
    IN  IF st # "Success" THEN Ret(t, CheckErr(st), {})
        ELSE IF ~LastOk(t1) THEN Ret(t1, LastErr(t1), {WorkGroupBuf})
        ELSE Ret(t2, Ok(WorkGroupConstants(raw)), {WorkGroupBuf})

\* Compiler::get_work_group_size_specialization_constants
get_work_group_size_specialization_constants(st, raw, f) ==
    LET t == <<CmdEv("get_work_group_size_specialization_constants", <<>>, st)>>
        t1 == t \o <<ReadEv(WorkGroupBuf), ReadEv(WorkGroupBuf), ReadEv(WorkGroupBuf)>>
        t2 == Free(t1, WorkGroupBuf, f)
    IN  IF st # "Success" THEN Ret(t, CheckErr(st), {})
        ELSE IF ~LastOk(t2) THEN Ret(t2, LastErr(t2), {WorkGroupBuf})
        ELSE Ret(t2, Ok(WorkGroupConstants(raw)), {WorkGroupBuf})

GetWorkGroupSizeSpecializationConstants(s, st, raw, f) ==
    /\ Live(s)
    /\ UNCHANGED <<handles, native, hist>>
    /\ call' = Call("get_work_group_size_specialization_constants", s, raw,
                    get_work_group_size_specialization_constants(st, raw, f))

\* rename_interface_variable with the resource names taken as they are
ResourceNamesUnchecked(resources) ==
    [ok |-> TRUE,
     names |-> [i \in 1..Len(resources) |-> CStringUnchecked(resources[i].name).bytes]]
\* The loop of rename_interface_variable over the slice: every name becomes
\* a CString, and the first one that cannot returns Unhandled
ResourceNames(resources) ==
    LET c == [i \in 1..Len(resources) |-> CStringNew(resources[i].name)]
    IN  IF \E i \in 1..Len(resources) : ~c[i].ok
        THEN [ok |-> FALSE, names |-> <<>>]
        ELSE [ok |-> TRUE, names |-> [i \in 1..Len(resources) |-> c[i].bytes]]

\* Compiler::rename_interface_variable
rename_interface_variable(resources, location, new_name, st) ==
    LET resources_names == ResourceNames(resources)
        c == CStringNew(new_name)
        raw == [i \in 1..Len(resources) |->
                   [id |-> resources[i].id,
                    type_id |-> resources[i].type_id,
                    base_type_id |-> resources[i].base_type_id,
                    name |-> resources_names.names[i]]]
    IN  IF ~resources_names.ok THEN Ret(<<>>, Err("Unhandled", NoValue), {})
        ELSE IF ~c.ok THEN Ret(<<>>, Err("Unhandled", NoValue), {})
        ELSE PassThrough("rename_interface_variable",
                         <<raw, Len(resources_names.names), location, c.bytes>>,
                         st, NoValue)

RenameInterfaceVariable(s, resources, location, new_name, st) ==
    /\ Live(s)
    /\ UNCHANGED <<handles, native, hist>>
    /\ call' = Call("rename_interface_variable", s,
                    [resources |-> resources, location |-> location,
                     new_name |-> new_name],
                    rename_interface_variable(resources, location, new_name, st))

\* A u64 is four limbs of 16 bits, the most significant first; a u32 is two
LimbBase == 2 ^ 16
\* value >> 16 on a u64
U64ShiftRight16(value) == <<0, value[1], value[2], value[3]>>
\* value >> 32 on a u64
U64ShiftRight32(value) == <<0, 0, value[1], value[2]>>
\* value as u32: the low 32 bits
U64AsU32(value) == <<value[3], value[4]>>

\* Compiler::set_scalar_constant
set_scalar_constant(id, value, st) ==
    LET high_bits == U64AsU32(U64ShiftRight32(value))
        low_bits == U64AsU32(value)
    IN  PassThrough("set_scalar_constant", <<id, high_bits, low_bits>>, st, NoValue)

SetScalarConstant(s, id, value, st) ==
    /\ Live(s)
    /\ UNCHANGED <<handles, native, hist>>
    /\ call' = Call("set_scalar_constant", s, [id |-> id, value |-> value],
                    set_scalar_constant(id, value, st))

----------------------------------------------------------------------------
(* What the caller passes and what the engine answers *)

Ids == {7}
MainSlot == CHOOSE s \in Slots : \A t \in Slots : s <= t

\* At most one release of a call fails, among the first MaxFreeFault
Faults ==
    {NoFault} \cup {[at |-> i, st |-> s] : i \in 1..MaxFreeFault, s \in FailStatus}
FirstFaults == {NoFault, [at |-> 1, st |-> "CompilationError"]}

RawEntryPoint(name, k) ==
    [name |-> name,
     execution_model |-> IF k = 1 THEN "Vertex" ELSE "Fragment",
     work_group_size_x |-> 0,
     work_group_size_y |-> 0,
     work_group_size_z |-> 0]
EntryPointArrays ==
    UNION {{[k \in 1..n |-> RawEntryPoint(names[k], k)] :
               names \in [1..n -> ElemStrings]} : n \in 0..MaxElems}

\* Shader resources: n elements in every category; spot marks one element
\* whose name does not decode, or one built-in element tagged Max, or nothing
NoSpot == [c |-> 0, k |-> 0, kind |-> "none"]
Spots(n) ==
    {NoSpot}
      \cup {[c |-> c, k |-> k, kind |-> "name"] : c \in Categories, k \in 1..n}
      \cup {[c |-> c, k |-> k, kind |-> "max"] :
               c \in {c \in Categories : IsBuiltInCategory(c)}, k \in 1..n}
RawResource(c, k, spot) ==
    LET base == [id |-> 10 * c + k,
                 type_id |-> 100 + c,
                 base_type_id |-> 200 + c,
                 name |-> IF spot = [c |-> c, k |-> k, kind |-> "name"]
                          THEN StrBad ELSE StrA]
    IN  IF IsBuiltInCategory(c)
        THEN base @@ [builtin |-> IF spot = [c |-> c, k |-> k, kind |-> "max"]
                                  THEN "spv::Max" ELSE "spv::Position",
                      value_type_id |-> 300 + c]
        ELSE base
RawShaderResources(n, spot) ==
    [c \in Categories |-> [k \in 1..n |-> RawResource(c, k, spot)]]
ShaderResourceAnswers ==
    UNION {{RawShaderResources(n, spot) : spot \in Spots(n)} : n \in 0..MaxElems}

RawImage ==
    [type_ |-> 3, dim |-> "Dim2D", depth |-> FALSE, arrayed |-> TRUE,
     ms |-> FALSE, sampled |-> 1, format |-> "Rgba8"]
RawType(ty, nm, na) ==
    [type_ |-> ty,
     vecsize |-> 4,
     columns |-> 1,
     member_types |-> [i \in 1..nm |-> 10 + i],
     member_types_size |-> nm,
     array |-> [i \in 1..na |-> 2 + i],
     array_size_literal |-> [i \in 1..na |-> i % 2 = 1],
     array_size |-> na,
     image |-> RawImage]
\* The three constants of the work group size as the engine hands them over
RawWorkGroupConstants ==
    [k \in 1..3 |-> [id |-> 40 + k, constant_id |-> k]]

TypeAnswers ==
    {RawType(ty, nm, na) :
        ty \in {"Float", "Struct"}, nm \in 0..MaxElems, na \in 0..MaxElems}

----------------------------------------------------------------------------
(* Spec: one handle, its lifecycle, its options and the Compiled state *)

Next ==
    \/ \E st \in Status : Parse(MainSlot, st, MainSlot)
    \/ Drop(MainSlot)
    \/ \E o \in AllOptions, st1, st2 \in Status :
           SetCompilerOptions(MainSlot, o, st1, st2)
    \/ \E st \in Status, str \in {StrA, StrBad}, f \in FirstFaults :
           Compile(MainSlot, st, str, f)
    \/ \E st \in Status, str \in {StrA, StrBad}, f \in FirstFaults :
           TraitCompile(MainSlot, st, str, f)
    \/ \E name \in RustNames, model \in ExecutionModels, st \in Status,
          str \in {StrA, StrBad}, f \in FirstFaults :
           GetCleansedEntryPointName(MainSlot, name, model, st, str, f)
    \/ \E id \in Ids, st \in Status, str \in {StrA}, f \in {NoFault} :
           GetName(MainSlot, id, st, str, f)
    \/ \E id \in Ids, name \in RustNames, st \in Status :
           SetName(MainSlot, id, name, st)
    \/ \E id \in Ids, st \in Status :
           SetDecoration(MainSlot, id, "Binding", 3, st)
    \/ \E id \in Ids, st \in Status :
           GetDecoration(MainSlot, id, "Binding", st, 3)
    \/ \E st \in Status, is_disabled \in BOOLEAN :
           IsRasterizationEnabled(MainSlot, st, is_disabled)

Spec == Init /\ [][Next]_vars

(* SpecMem: one handle, every answer the engine can give to a query *)

NextMem ==
    \/ \E st \in Status : Parse(MainSlot, st, MainSlot)
    \/ Drop(MainSlot)
    \/ \E st \in Status, str \in NativeStrings, f \in Faults :
           Compile(MainSlot, st, str, f)
    \/ \E name \in RustNames, st \in Status, str \in NativeStrings, f \in Faults :
           GetCleansedEntryPointName(MainSlot, name, "Vertex", st, str, f)
    \/ \E id \in Ids, st \in Status, str \in NativeStrings, f \in Faults :
           GetName(MainSlot, id, st, str, f)
    \/ \E id \in Ids, st \in Status, str \in NativeStrings, f \in Faults :
           GetMemberName(MainSlot, id, 0, st, str, f)
    \/ \E st \in Status, raw \in EntryPointArrays, f \in Faults :
           GetEntryPoints(MainSlot, st, raw, f)
    \/ \E st \in Status, raw \in ShaderResourceAnswers, f \in Faults :
           GetShaderResources(MainSlot, st, raw, f)
    \/ \E id \in Ids, st \in Status, raw \in TypeAnswers, f \in Faults :
           GetType(MainSlot, id, st, raw, f)
    \/ \E st \in Status, f \in Faults :
           GetWorkGroupSizeSpecializationConstants(MainSlot, st,
                                                   RawWorkGroupConstants, f)

SpecMem == Init /\ [][NextMem]_vars

(* SpecOwn: several bindings, handles parsed, moved, used and dropped *)

NextOwn ==
    \/ \E s \in Slots, st \in Status, p \in Ptrs : Parse(s, st, p)
    \/ \E a, b \in Slots : Move(a, b)
    \/ \E s \in Slots : Drop(s)
    \/ \E s \in Slots, st \in Status : Compile(s, st, StrA, NoFault)
    \/ \E s \in Slots, id \in Ids, st \in Status :
           GetName(s, id, st, StrA, NoFault)

SpecOwn == Init /\ [][NextOwn]_vars

(* SpecFn: the conversions, applied to every input in range *)

\* LodBase16::from(v)
LodFromF32(v) ==
    /\ call' = Call("LodBase16::from", 0, v, Ret(<<>>, Ok(LodBase16From(v)), {}))
    /\ UNCHANGED <<handles, native, hist>>

\* f32 inputs: every thirty-second from -MaxLodInput / 8 to MaxLodInput (18.0),
\* 100.0, the infinities and NaN
\* The members of BuiltIn
PublicBuiltIns ==
    {"Position", "PointSize", "ClipDistance", "CullDistance", "VertexId",
     "InstanceId", "PrimitiveId", "InvocationId", "Layer", "ViewportIndex",
     "TessLevelOuter", "TessLevelInner", "TessCoord", "PatchVertices",
     "FragCoord", "PointCoord", "FrontFacing", "SampleId", "SamplePosition",
     "SampleMask", "FragDepth", "HelperInvocation", "NumWorkgroups",
     "WorkgroupSize", "WorkgroupId", "LocalInvocationId",
     "GlobalInvocationId", "LocalInvocationIndex", "WorkDim", "GlobalSize",
     "EnqueuedWorkgroupSize", "GlobalOffset", "GlobalLinearId",
     "SubgroupSize", "SubgroupMaxSize", "NumSubgroups",
     "NumEnqueuedSubgroups", "SubgroupId", "SubgroupLocalInvocationId",
     "VertexIndex", "InstanceIndex", "SubgroupEqMask", "SubgroupGeMask",
     "SubgroupGtMask", "SubgroupLeMask", "SubgroupLtMask", "BaseVertex",
     "BaseInstance", "DrawIndex", "PrimitiveShadingRateKhr", "DeviceIndex",
     "ViewIndex", "ShadingRateKhr", "BaryCoordNoPerspAmd",
     "BaryCoordNoPerspCentroidAmd", "BaryCoordNoPerspSampleAmd",
     "BaryCoordSmoothAmd", "BaryCoordSmoothCentroidAmd",
     "BaryCoordSmoothSampleAmd", "BaryCoordPullModelAmd", "FragStencilRefExt",
     "ViewportMaskNv", "SecondaryPositionNv", "SecondaryViewportMaskNv",
     "PositionPerViewNv", "ViewportMaskPerViewNv", "FullyCoveredExt",
     "TaskCountNv", "PrimitiveCountNv", "PrimitiveIndicesNv",
     "ClipDistancePerViewNv", "CullDistancePerViewNv", "LayerPerViewNv",
     "MeshViewCountNv", "MeshViewIndicesNv", "BaryCoordKhr",
     "BaryCoordNoPerspKhr", "FragSizeExt", "FragInvocationCountExt",
     "PrimitivePointIndicesExt", "PrimitiveLineIndicesExt",
     "PrimitiveTriangleIndicesExt", "CullPrimitiveExt", "LaunchIdKhr",
     "LaunchSizeKhr", "WorldRayOriginKhr", "WorldRayDirectionKhr",
     "ObjectRayOriginKhr", "ObjectRayDirectionKhr", "RayTminKhr",
     "RayTmaxKhr", "InstanceCustomIndexKhr", "ObjectToWorldKhr",
     "WorldToObjectKhr", "HitTnv", "HitKindKhr", "CurrentRayTimeNv",
     "IncomingRayFlagsKhr", "RayGeometryIndexKhr", "WarpsPerSmnv",
     "SmCountNv", "WarpIdnv", "Smidnv", "CullMaskKhr"}

\* The members of spv::BuiltIn: one arm of from_raw each
NativeBuiltIns ==
    {"spv::Position", "spv::PointSize", "spv::ClipDistance",
     "spv::CullDistance", "spv::VertexId", "spv::InstanceId",
     "spv::PrimitiveId", "spv::InvocationId", "spv::Layer",
     "spv::ViewportIndex", "spv::TessLevelOuter", "spv::TessLevelInner",
     "spv::TessCoord", "spv::PatchVertices", "spv::FragCoord",
     "spv::PointCoord", "spv::FrontFacing", "spv::SampleId",
     "spv::SamplePosition", "spv::SampleMask", "spv::FragDepth",
     "spv::HelperInvocation", "spv::NumWorkgroups", "spv::WorkgroupSize",
     "spv::WorkgroupId", "spv::LocalInvocationId", "spv::GlobalInvocationId",
     "spv::LocalInvocationIndex", "spv::WorkDim", "spv::GlobalSize",
     "spv::EnqueuedWorkgroupSize", "spv::GlobalOffset", "spv::GlobalLinearId",
     "spv::SubgroupSize", "spv::SubgroupMaxSize", "spv::NumSubgroups",
     "spv::NumEnqueuedSubgroups", "spv::SubgroupId",
     "spv::SubgroupLocalInvocationId", "spv::VertexIndex",
     "spv::InstanceIndex", "spv::SubgroupEqMask", "spv::SubgroupGeMask",
     "spv::SubgroupGtMask", "spv::SubgroupLeMask", "spv::SubgroupLtMask",
     "spv::BaseVertex", "spv::BaseInstance", "spv::DrawIndex",
     "spv::PrimitiveShadingRateKhr", "spv::DeviceIndex", "spv::ViewIndex",
     "spv::ShadingRateKhr", "spv::BaryCoordNoPerspAmd",
     "spv::BaryCoordNoPerspCentroidAmd", "spv::BaryCoordNoPerspSampleAmd",
     "spv::BaryCoordSmoothAmd", "spv::BaryCoordSmoothCentroidAmd",
     "spv::BaryCoordSmoothSampleAmd", "spv::BaryCoordPullModelAmd",
     "spv::FragStencilRefExt", "spv::ViewportMaskNv",
     "spv::SecondaryPositionNv", "spv::SecondaryViewportMaskNv",
     "spv::PositionPerViewNv", "spv::ViewportMaskPerViewNv",
     "spv::FullyCoveredExt", "spv::TaskCountNv", "spv::PrimitiveCountNv",
     "spv::PrimitiveIndicesNv", "spv::ClipDistancePerViewNv",
     "spv::CullDistancePerViewNv", "spv::LayerPerViewNv",
     "spv::MeshViewCountNv", "spv::MeshViewIndicesNv", "spv::BaryCoordKhr",
     "spv::BaryCoordNoPerspKhr", "spv::FragSizeExt",
     "spv::FragInvocationCountExt", "spv::PrimitivePointIndicesExt",
     "spv::PrimitiveLineIndicesExt", "spv::PrimitiveTriangleIndicesExt",
     "spv::CullPrimitiveExt", "spv::LaunchIdKhr", "spv::LaunchSizeKhr",
     "spv::WorldRayOriginKhr", "spv::WorldRayDirectionKhr",
     "spv::ObjectRayOriginKhr", "spv::ObjectRayDirectionKhr",
     "spv::RayTminKhr", "spv::RayTmaxKhr", "spv::InstanceCustomIndexKhr",
     "spv::ObjectToWorldKhr", "spv::WorldToObjectKhr", "spv::HitTnv",
     "spv::HitKindKhr", "spv::CurrentRayTimeNv", "spv::IncomingRayFlagsKhr",
     "spv::RayGeometryIndexKhr", "spv::WarpsPerSmnv", "spv::SmCountNv",
     "spv::WarpIdnv", "spv::Smidnv", "spv::CullMaskKhr", "spv::Max"}

\* BuiltIn::from_raw applied to a native member; the Max arm is unreachable!()
BuiltInFromRawCall(v) ==
    /\ call' = Call("BuiltIn::from_raw", 0, v,
                     Ret(<<>>, IF v = "spv::Max" THEN Panic("invalid builtin")
                               ELSE Ok(BuiltInFromRaw(v)), {}))
    /\ UNCHANGED <<handles, native, hist>>

\* built_in_as_raw applied to an Option<BuiltIn>
BuiltInAsRawCall(built_in) ==
    /\ call' = Call("built_in_as_raw", 0, built_in,
                     Ret(<<>>, Ok(built_in_as_raw(built_in)), {}))
    /\ UNCHANGED <<handles, native, hist>>

\* Type::from_raw applied to the fields of a native type record
TypeFromRawCall(raw) ==
    /\ call' = Call("Type::from_raw", 0, raw,
                     Ret(<<>>, Ok(TypeFromRaw(raw.type_, raw.vecsize, raw.columns,
                                              raw.member_types, raw.array,
                                              raw.array_size_literal, raw.image)),
                         {}))
    /\ UNCHANGED <<handles, native, hist>>

\* Synthetic native type records: every base type, two values of each field
OtherImage ==
    [type_ |-> 5, dim |-> "Dim3D", depth |-> TRUE, arrayed |-> FALSE,
     ms |-> TRUE, sampled |-> 2, format |-> "R32f"]
SyntheticTypes ==
    {[RawType(ty, nm, na) EXCEPT !.vecsize = v[1], !.columns = v[2], !.image = image] :
        ty \in BaseTypes, nm \in {0, MaxElems}, na \in {0, MaxElems},
        v \in {<<4, 1>>, <<2, 3>>}, image \in {RawImage, OtherImage}}

LodInputs ==
    {F32Num(n) : n \in (0 - MaxLodInput \div 8)..MaxLodInput}
        \cup {F32Num(100 * F32Unit), F32Inf, F32NegInf, F32NaN}

NextFn ==
    \/ \E v \in LodInputs : LodFromF32(v)
    \/ \E v \in NativeBuiltIns : BuiltInFromRawCall(v)
    \/ \E built_in \in PublicBuiltIns \cup {"None"} : BuiltInAsRawCall(built_in)
    \/ \E raw \in SyntheticTypes : TypeFromRawCall(raw)

SpecFn == Init /\ [][NextFn]_vars


(* SpecSet: one handle and the calls that change the module in the engine *)

\* spirv::Resource values as a caller holds them, told apart by their ids
Resource(k, name) ==
    [id |-> 10 + k, type_id |-> 20 + k, base_type_id |-> 30 + k, name |-> name]
ResourceSlices ==
    UNION {{[k \in 1..n |-> Resource(k, names[k])] :
               names \in [1..n -> {NameMain, NameNul}]} : n \in 0..MaxElems}

\* 64-bit values whose limbs are zero or all ones
U64Values == [1..4 -> {0, LimbBase - 1}]

NextSet ==
    \/ \E st \in Status : Parse(MainSlot, st, MainSlot)
    \/ Drop(MainSlot)
    \/ \E resources \in ResourceSlices, new_name \in {NameFrag, NameNul},
          st \in Status :
           RenameInterfaceVariable(MainSlot, resources, 1, new_name, st)
    \/ \E id \in Ids, value \in U64Values, st \in Status :
           SetScalarConstant(MainSlot, id, value, st)
    \/ \E id \in Ids, name \in RustNames, st \in Status :
           SetName(MainSlot, id, name, st)
    \/ \E id \in Ids, name \in RustNames, st \in Status :
           SetMemberName(MainSlot, id, 0, name, st)
    \/ \E id \in Ids, st \in Status :
           SetDecoration(MainSlot, id, "Binding", 3, st)
    \/ \E id \in Ids, st \in Status :
           UnsetDecoration(MainSlot, id, "Binding", st)
    \/ \E id \in Ids, st \in Status :
           SetMemberDecoration(MainSlot, id, 0, "Offset", 16, st)
    \/ \E o \in {DefaultOptions, OptionsMain, OptionsNul, OptionsOne},
          st1 \in {"Success", "Unhandled"}, st2 \in {"Success", "CompilationError"} :
           SetCompilerOptions(MainSlot, o, st1, st2)
    \/ \E st \in Status : Compile(MainSlot, st, StrA, NoFault)
    \/ \E id \in Ids, st \in Status :
           GetDecoration(MainSlot, id, "Binding", st, 3)
    \/ \E name \in RustNames, st \in Status :
           GetCleansedEntryPointName(MainSlot, name, "Vertex", st, StrA, NoFault)

SpecSet == Init /\ [][NextSet]_vars

(* SpecTwo: two handles parsed independently, their calls interleaved *)

TwoSlots == {s \in Slots : s <= MainSlot + 1}

NextTwo ==
    \/ \E s \in TwoSlots, st \in Status, p \in TwoSlots : Parse(s, st, p)
    \/ \E s \in TwoSlots : Drop(s)
    \/ \E s \in TwoSlots, o \in {OptionsMain, OptionsOne}, st2 \in Status :
           SetCompilerOptions(s, o, "Success", st2)
    \/ \E s \in TwoSlots, st \in Status : Compile(s, st, StrA, NoFault)
    \/ \E s \in TwoSlots, id \in Ids, st \in Status :
           SetName(s, id, NameMain, st)

SpecTwo == Init /\ [][NextTwo]_vars

----------------------------------------------------------------------------
(* Claims C1 - C10 *)

HasNul(s) == \E i \in 1..Len(s) : s[i] = 0
IsDelete(e) == e.k = "cmd" /\ e.name = "delete"
DecodeFailed(e) == e.name = "decode" /\ e.st # "Success"
NoNativeCommand(t) == \A i \in DOMAIN t : ~IsNative(t[i])

\* C1: on a handle on which compile was never called,
\* get_cleansed_entry_point_name returns CompilationError for every name and
\* execution model, and issues no native command
C1_CleansedBeforeCompileIsLocalError ==
    (call.op = "get_cleansed_entry_point_name" /\ ~hist[call.h].called)
        => /\ call.res.err = "CompilationError"
           /\ NoNativeCommand(call.trace)

C1_Witness ==
    /\ call.op = "get_cleansed_entry_point_name"
    /\ ~hist[call.h].called
    /\ call.arg = <<NameNul, "Fragment">>
    /\ native[handles[call.h].sc_compiler].options # None

\* C2: the Compiled state is entered only by a successful compile call: a
\* handle none of whose compile calls returned Ok has has_been_compiled false
C2_CompiledOnlyAfterSuccessfulCompile ==
    \A s \in Slots :
        (Live(s) /\ ~hist[s].succeeded) => ~handles[s].has_been_compiled

\* C3: after every successful compile, through Ast::compile or through the
\* Compile trait, has_been_compiled is true
C3_SuccessfulCompileSetsFlag ==
    (call.op \in {"compile", "Compile::compile"} /\ call.res.ok)
        => handles[call.h].has_been_compiled

\* C4: has_been_compiled is false right after parse, and once true it stays
\* true for as long as the handle lives, whatever is called on it
C4_FlagMonotone ==
    /\ []((call.op = "parse" /\ call.res.ok)
             => ~handles[call.h].has_been_compiled)
    /\ [][\A s \in Slots :
             (handles[s].has_been_compiled /\ handles'[s].live)
                 => handles'[s].has_been_compiled]_vars

C4_Witness ==
    /\ call.op = "compile"
    /\ ~call.res.ok
    /\ hist[call.h].succeeded
    /\ handles[call.h].has_been_compiled

\* C5: every native instance is deleted exactly once, by the drop of the
\* handle that owns it and by nothing earlier: an instance is alive exactly
\* while a live handle holds it, no address sees a second delete, and the
\* only call that issues a delete command is drop, which issues one
C5_OneDeleteAtEndOfLife ==
    /\ \A p \in Ptrs :
          /\ native[p].deletes <= 1
          /\ native[p].alive <=>
                 \E s \in Slots : Live(s) /\ handles[s].sc_compiler = p
    /\ Len(SelectSeq(call.trace, IsDelete)) = IF call.op = "drop" THEN 1 ELSE 0
    /\ call.op = "drop" => call.trace[1].args = <<call.arg>>

C5_Witness ==
    /\ call.op = "drop"
    /\ native[call.arg].deletes = 1
    /\ ~native[call.arg].alive
    /\ \E s \in Slots : Live(s) /\ handles[s].has_been_compiled

\* C6: no two live handles hold the same native instance pointer
C6_OneOwner ==
    \A a, b \in Slots :
        (a # b /\ Live(a) /\ Live(b))
            => handles[a].sc_compiler # handles[b].sc_compiler

C6_Witness ==
    /\ call.op = "move"
    /\ \E a, b \in Slots : a # b /\ Live(a) /\ Live(b)

StringOps ==
    {"get_name", "get_member_name", "get_cleansed_entry_point_name", "compile"}

\* C7: when the string the engine returned does not decode, get_name,
\* get_member_name, get_cleansed_entry_point_name and compile return
\* Unhandled and have released the string buffer exactly once
C7_UndecodableStringIsReleased ==
    call.op \in StringOps =>
        \A i \in DOMAIN call.trace :
            DecodeFailed(call.trace[i])
                => /\ call.res.err = "Unhandled"
                   /\ Releases(call.trace, call.trace[i].buf) = 1

\* C8: when get_entry_points or get_shader_resources fails converting an
\* element, every buffer the engine handed over for the call has been
\* released exactly once when the error is returned
C8_FailedConversionReleasesEverything ==
    (/\ call.op \in {"get_entry_points", "get_shader_resources"}
     /\ \E i \in DOMAIN call.trace : DecodeFailed(call.trace[i]))
        => \A b \in call.bufs : Releases(call.trace, b) = 1

\* C9: a successful get_type has released exactly once the type record and
\* each of the member-types, array and array-size-literal buffers whose count
\* is not zero, and has not released a buffer whose count is zero
C9_GetTypeReleasesWhatItRead ==
    (call.op = "get_type" /\ call.res.ok)
        => LET raw == call.arg
               One(c) == IF c > 0 THEN 1 ELSE 0
           IN  /\ Releases(call.trace, TypeBuf) = 1
               /\ Releases(call.trace, MemberTypesBuf) = One(raw.member_types_size)
               /\ Releases(call.trace, ArrayBuf) = One(raw.array_size)
               /\ Releases(call.trace, ArraySizeLiteralBuf) = One(raw.array_size)

\* C10: set_compiler_options with an entry point name that has an embedded
\* zero byte returns Unhandled, issues no native command and leaves the
\* handle (tables, has_been_compiled) and the engine as they were; with an
\* encodable name, set_entry_point is the first native command of the call
\* and msl_set_options comes after it
C10_EntryPointEncodedFirst ==
    [][call'.op = "set_compiler_options" =>
         LET ep == call'.arg.entry_point
             t == call'.trace
         IN  /\ (ep # None /\ HasNul(ep[1][1]))
                    => /\ call'.res.err = "Unhandled"
                       /\ t = <<>>
                       /\ handles' = handles
                       /\ native' = native
             /\ (ep # None /\ ~HasNul(ep[1][1]))
                    => /\ t # <<>>
                       /\ t[1].name = "set_entry_point"
                       /\ \A i \in DOMAIN t :
                             t[i].name = "msl_set_options" => i > 1]_vars

C10_Witness ==
    /\ call.op = "set_compiler_options"
    /\ call.arg = OptionsNul
    /\ call.res.err = "Unhandled"
    /\ handles[call.h].has_been_compiled
    /\ handles[call.h].target_data = FlattenOptions(OptionsOverrides)

----------------------------------------------------------------------------
(* Claims C11 - C20 *)

SetOptionsSucceeded == call.op = "set_compiler_options" /\ call.res.ok
Tables == handles[call.h].target_data

RbKey(rec) == RbLoc(rec.stage, rec.desc_set, rec.binding)
SKey(rec) == SLoc(rec.desc_set, rec.binding)

RbBefore(a, b) ==
    \/ ExecutionModelRank(a.stage) < ExecutionModelRank(b.stage)
    \/ /\ a.stage = b.stage
       /\ \/ a.desc_set < b.desc_set
          \/ a.desc_set = b.desc_set /\ a.binding < b.binding
SBefore(a, b) ==
    \/ a.desc_set < b.desc_set
    \/ a.desc_set = b.desc_set /\ a.binding < b.binding

\* C11: after every successful set_compiler_options(o) each of the three
\* flattened tables has as many records as the corresponding map of o has
\* entries, and its records are in strictly ascending key order
C11_TablesSortedAndSized ==
    SetOptionsSucceeded =>
        LET o == call.arg
            rb == Tables.resource_binding_overrides
            va == Tables.vertex_attribute_overrides
            cs == Tables.const_samplers
        IN  /\ Len(rb) = Cardinality(DOMAIN o.resource_binding_overrides)
            /\ Len(va) = Cardinality(DOMAIN o.vertex_attribute_overrides)
            /\ Len(cs) = Cardinality(DOMAIN o.const_samplers)
            /\ \A i, j \in DOMAIN rb : i < j => RbBefore(rb[i], rb[j])
            /\ \A i, j \in DOMAIN va : i < j => va[i].location < va[j].location
            /\ \A i, j \in DOMAIN cs : i < j => SBefore(cs[i], cs[j])

C11_Witness ==
    /\ SetOptionsSucceeded
    /\ Len(Tables.resource_binding_overrides) = 3
    /\ Len(Tables.vertex_attribute_overrides) = 2
    /\ Len(Tables.const_samplers) = 2
    /\ Tables.resource_binding_overrides[1].stage = "Vertex"
    /\ Tables.resource_binding_overrides[3].stage = "Fragment"

CompileOps == {"compile", "Compile::compile"}
\* The three arrays a compile call handed to the native compile command
CompileArgs == call.trace[1].args

\* array holds exactly one record for the key, and it carries the value
HoldsBinding(array, key, value) ==
    /\ Cardinality({i \in DOMAIN array : RbKey(array[i]) = key}) = 1
    /\ \A i \in DOMAIN array :
          RbKey(array[i]) = key =>
              /\ array[i].basetype = value.base_type
              /\ array[i].msl_buffer = value.buffer_id
              /\ array[i].msl_texture = value.texture_id
              /\ array[i].msl_sampler = value.sampler_id
              /\ array[i].count = value.count

\* C12: for every entry (key, value) of options.resource_binding_overrides,
\* the table after a successful set_compiler_options, and the array the next
\* compile passes to the engine, holds one record whose stage, desc_set and
\* binding are the key and whose other fields are the fields of the value
C12_ResourceBindingPassedUnchanged ==
    /\ SetOptionsSucceeded =>
          \A k \in DOMAIN call.arg.resource_binding_overrides :
              HoldsBinding(Tables.resource_binding_overrides, k,
                           call.arg.resource_binding_overrides[k])
    /\ (call.op \in CompileOps /\ hist[call.h].options # None) =>
          LET m == hist[call.h].options[1].resource_binding_overrides
          IN  \A k \in DOMAIN m : HoldsBinding(CompileArgs[2], k, m[k])

C12_Witness ==
    /\ call.op = "compile"
    /\ hist[call.h].options = Some(OptionsOverrides)
    /\ hist[call.h].asked # hist[call.h].options
    /\ Len(CompileArgs[2]) = 3
    /\ HoldsBinding(CompileArgs[2], RbLoc("Vertex", 0, 0), ImageBinding)

RbKeys(array) == {RbKey(array[i]) : i \in DOMAIN array}
VaKeys(array) == {array[i].location : i \in DOMAIN array}
SKeys(array) == {SKey(array[i]) : i \in DOMAIN array}
\* every record of the three arrays is for a key of the maps of o
OnlyKeysOf(td, o) ==
    /\ RbKeys(td.resource_binding_overrides)
           \subseteq DOMAIN o.resource_binding_overrides
    /\ VaKeys(td.vertex_attribute_overrides)
           \subseteq DOMAIN o.vertex_attribute_overrides
    /\ SKeys(td.const_samplers) \subseteq DOMAIN o.const_samplers
ArgsAsTables(args) ==
    [vertex_attribute_overrides |-> args[1],
     resource_binding_overrides |-> args[2],
     const_samplers |-> args[3]]

\* C13: after a successful set_compiler_options(o2) the tables hold no record
\* for a key that is not in the corresponding map of o2, whatever records an
\* earlier call left in them, and a later compile passes no such record
C13_NoRecordForOmittedKey ==
    /\ SetOptionsSucceeded => OnlyKeysOf(Tables, call.arg)
    /\ (call.op \in CompileOps /\ hist[call.h].options # None) =>
          OnlyKeysOf(ArgsAsTables(CompileArgs), hist[call.h].options[1])

C13_Witness ==
    /\ SetOptionsSucceeded
    /\ call.arg = OptionsOne
    /\ RbLoc("Vertex", 1, 0)
          \in RbKeys(call.before.target_data.resource_binding_overrides)
    /\ SLoc(1, 0) \in SKeys(call.before.target_data.const_samplers)
    /\ Len(Tables.resource_binding_overrides) = 1

FlattenedOrEmpty(o) == IF o = None THEN EmptyTargetData ELSE FlattenOptions(o[1])

\* C14: the three arrays a compile call passes to the native compile command
\* are the flattening of the options given to the most recent
\* set_compiler_options call on the handle (empty arrays if there was none),
\* also when that call returned an error, and compile leaves the three
\* tables unchanged
C14_CompilePassesMostRecentOptions ==
    call.op \in CompileOps =>
        /\ ArgsAsTables(CompileArgs) = FlattenedOrEmpty(hist[call.h].asked)
        /\ Tables = call.before.target_data

\* C14 as amended: the three arrays are the flattening of the options given
\* to the most recent set_compiler_options call on the handle that returned
\* Ok (empty arrays if there was none); a call that returned an error leaves
\* them as they were; compile leaves the three tables unchanged
C14_CompilePassesLastAcceptedOptions ==
    call.op \in CompileOps =>
        /\ ArgsAsTables(CompileArgs) = FlattenedOrEmpty(hist[call.h].options)
        /\ Tables = call.before.target_data

C14_Witness ==
    /\ call.op \in CompileOps
    /\ hist[call.h].options = Some(OptionsOne)
    /\ hist[call.h].asked = Some(OptionsOverrides)
    /\ Len(CompileArgs[1]) = 1
    /\ Len(CompileArgs[2]) = 1

\* C15: a set_compiler_options or compile call that returns CompilationError
\* leaves the handle as it was before the call (the three tables,
\* has_been_compiled) and leaves the configuration applied to the engine
\* (selected entry point, option record) as it was
C15_CompilationErrorChangesNothing ==
    [][(/\ call'.op \in {"set_compiler_options"} \cup CompileOps
        /\ call'.res.err = "CompilationError")
           => /\ handles'[call'.h] = handles[call'.h]
              /\ native' = native]_vars

\* C16: in every constant-sampler record flattened by set_compiler_options,
\* compare_enable is true iff compare_func is not Always, lod_clamp_enable is
\* false iff lod_clamp_min is LodBase16::ZERO and lod_clamp_max is
\* LodBase16::MAX, and anisotropy_enable is true iff max_anisotropy is not 0
C16_SamplerEnableFlags ==
    SetOptionsSucceeded =>
        \A i \in DOMAIN Tables.const_samplers :
            LET rec == Tables.const_samplers[i].sampler
                data == call.arg.const_samplers[SKey(Tables.const_samplers[i])]
            IN  /\ rec.compare_enable <=> data.compare_func # "Always"
                /\ rec.compare_enable <=> rec.compare_func # "Always"
                /\ ~rec.lod_clamp_enable <=>
                       (data.lod_clamp_min = LodZero /\ data.lod_clamp_max = LodMax)
                /\ rec.anisotropy_enable <=> data.max_anisotropy # 0
                /\ rec.anisotropy_enable <=> rec.max_anisotropy # 0

C16_Witness ==
    /\ SetOptionsSucceeded
    /\ \E i, j \in DOMAIN Tables.const_samplers :
          LET a == Tables.const_samplers[i].sampler
              b == Tables.const_samplers[j].sampler
          IN  /\ a.compare_enable /\ a.lod_clamp_enable /\ a.anisotropy_enable
              /\ a.lod_clamp_max = LodToF32(LodMax)
              /\ ~b.compare_enable /\ ~b.lod_clamp_enable /\ ~b.anisotropy_enable

\* v is a number that is a multiple of 1/16
IsSixteenths(v) == v.cls = "num" /\ v.num % 2 = 0
\* 16 * v, for such a v
Sixteenths(v) == v.num \div 2
IsNegative(v) == v.cls = "-inf" \/ (v.cls = "num" /\ v.num < 0)
AtLeastMax(v) == v.cls = "inf" \/ (v.cls = "num" /\ v.num >= 2 * LodMax)

\* C17: LodBase16::from(v) saturates to [0, 255] sixteenths: for v a multiple
\* of 1/16 the stored value is 16*v when 0 <= 16*v <= 255; it is 0 for every
\* negative v and 255 for every v with 16*v >= 255; from(0.0) is ZERO,
\* from(16.0) and from(100.0) are MAX
C17_LodSaturates ==
    call.op = "LodBase16::from" =>
        LET v == call.arg
            stored == call.res.val
        IN  /\ (IsSixteenths(v) /\ 0 <= Sixteenths(v) /\ Sixteenths(v) <= 255)
                   => stored = Sixteenths(v)
            /\ IsNegative(v) => stored = 0
            /\ AtLeastMax(v) => stored = 255
            /\ v = F32Num(0) => stored = LodZero
            /\ v = F32Num(16 * F32Unit) => stored = LodMax
            /\ v = F32Num(100 * F32Unit) => stored = LodMax

C17_Witness ==
    /\ call.op = "LodBase16::from"
    /\ call.arg = F32Num(16 * F32Unit)
    /\ call.res.val = LodMax

\* the option record a set_compiler_options call handed to msl_set_options
PassedOptions(t) == t[Len(t)].args[1]

\* C18: every set_compiler_options call passes disable_rasterization as the
\* negation of options.enable_rasterization and every other boolean option
\* as it is, and is_rasterization_enabled returns the negation of the
\* answer of the engine
C18_RasterizationFlagInverted ==
    /\ (/\ call.op = "set_compiler_options"
        /\ call.trace # <<>>
        /\ call.trace[Len(call.trace)].name = "msl_set_options") =>
          LET o == call.arg
              raw == PassedOptions(call.trace)
          IN  /\ raw.disable_rasterization = ~o.enable_rasterization
              /\ raw.vertex_invert_y = o.vertex.invert_y
              /\ raw.vertex_transform_clip_space = o.vertex.transform_clip_space
              /\ raw.enable_point_size_builtin = o.enable_point_size_builtin
              /\ raw.capture_output_to_buffer = o.capture_output_to_buffer
              /\ raw.swizzle_texture_samples = o.swizzle_texture_samples
              /\ raw.tess_domain_origin_lower_left
                    = o.tessellation_domain_origin_lower_left
              /\ raw.argument_buffers = o.enable_argument_buffers
              /\ raw.pad_fragment_output_components
                    = o.pad_fragment_output_components
              /\ raw.force_native_arrays = o.force_native_arrays
              /\ raw.force_zero_initialized_variables
                    = o.force_zero_initialized_variables
              /\ raw.force_active_argument_buffer_resources
                    = o.force_active_argument_buffer_resources
    /\ (call.op = "is_rasterization_enabled" /\ call.res.ok) =>
          call.res.val = ~call.arg

C18_Witness ==
    /\ call.op = "is_rasterization_enabled"
    /\ call.res.ok
    /\ call.arg = TRUE
    /\ native[handles[call.h].sc_compiler].options # None
    /\ native[handles[call.h].sc_compiler].options[1].disable_rasterization
    /\ hist[call.h].options = Some(OptionsFrag)

\* C19: the built-in conversions are inverse to each other. A native member
\* other than Max, converted to a BuiltIn and back, is the same native member;
\* a BuiltIn converted to native and back is the same BuiltIn, and its native
\* form is never Max; an absent built-in (None) converts to the native Max.
C19_BuiltInRoundTrip ==
    /\ (call.op = "BuiltIn::from_raw" /\ call.arg # "spv::Max") =>
           /\ call.res.ok
           /\ call.res.val \in PublicBuiltIns
           /\ built_in_as_raw(call.res.val) = call.arg
    /\ (call.op = "built_in_as_raw" /\ call.arg # "None") =>
           /\ call.res.val \in NativeBuiltIns \ {"spv::Max"}
           /\ BuiltInFromRaw(call.res.val) = call.arg
    /\ (call.op = "built_in_as_raw" /\ call.arg = "None") =>
           call.res.val = "spv::Max"

\* a BuiltIn other than the first has been converted to its native member
C19_Witness ==
    /\ call.op = "built_in_as_raw"
    /\ call.arg = "PointSize"
    /\ call.res.val = "spv::PointSize"

\* C20: no operation is fatal to the process. Whatever the native engine
\* answers, a built-in resource record tagged with the sentinel Max included,
\* get_shader_resources returns an Ok or an Err value and does not abort.
C20_GetShaderResourcesNeverAborts ==
    call.op = "get_shader_resources" => call.res.err # "Panic"

----------------------------------------------------------------------------
(* Claims C21 - C30 *)

\* C21: rename_interface_variable encodes all or nothing. When the name of
\* any resource of the slice, at any position, or the new name holds a zero
\* byte, the call returns Unhandled and no native command was issued;
\* otherwise exactly one rename command is issued, carrying every resource
\* in slice order and a count equal to the length of the slice.
C21_RenameAllOrNothing ==
    call.op = "rename_interface_variable" =>
        LET a == call.arg
            n == Len(a.resources)
        IN  IF HasNul(a.new_name) \/ \E i \in 1..n : HasNul(a.resources[i].name)
            THEN /\ call.res = Err("Unhandled", NoValue)
                 /\ call.trace = <<>>
            ELSE /\ Len(call.trace) = 1
                 /\ call.trace[1].k = "cmd"
                 /\ call.trace[1].name = "rename_interface_variable"
                 /\ Len(call.trace[1].args[1]) = n
                 /\ call.trace[1].args[2] = n
                 /\ call.trace[1].args[3] = a.location
                 /\ call.trace[1].args[4] = Append(a.new_name, 0)
                 /\ \A i \in 1..n :
                        /\ call.trace[1].args[1][i].id = a.resources[i].id
                        /\ call.trace[1].args[1][i].type_id = a.resources[i].type_id
                        /\ call.trace[1].args[1][i].base_type_id =
                               a.resources[i].base_type_id
                        /\ call.trace[1].args[1][i].name =
                               Append(a.resources[i].name, 0)

\* a slice of which only the last name cannot be encoded was refused
C21_Witness ==
    /\ call.op = "rename_interface_variable"
    /\ Len(call.arg.resources) = MaxElems
    /\ HasNul(call.arg.resources[MaxElems].name)
    /\ \A i \in 1..(MaxElems - 1) : ~HasNul(call.arg.resources[i].name)
    /\ ~HasNul(call.arg.new_name)
    /\ ~call.res.ok

\* w is a number of n limbs
IsWord(w, n) == Len(w) = n /\ \A i \in 1..n : w[i] \in 0..(LimbBase - 1)

\* C22: set_scalar_constant(id, value) passes high = value div 2^32 and
\* low = value mod 2^32 to the native command, each within 32 bits, so that
\* high * 2^32 + low = value for every 64-bit value; high comes before low.
C22_ScalarConstantSplit ==
    call.op = "set_scalar_constant" =>
        LET high == call.trace[1].args[2]
            low == call.trace[1].args[3]
        IN  /\ Len(call.trace) = 1
            /\ call.trace[1].name = "set_scalar_constant"
            /\ call.trace[1].args[1] = call.arg.id
            /\ IsWord(high, 2)
            /\ IsWord(low, 2)
            /\ high \o low = call.arg.value

\* a value with different halves, bits set in each, was passed
C22_Witness ==
    /\ call.op = "set_scalar_constant"
    /\ call.arg.value = <<LimbBase - 1, 0, 0, LimbBase - 1>>
    /\ call.res.ok

\* the Type variants that carry array information
HasArray(ty) == "array" \in DOMAIN ty

\* C23: every Type that get_type returns and that carries array information
\* has array and array_size_literal sequences of the same length, the
\* array_size of the native record, and element i of each is the element at
\* position i of the native buffer.
C23_ArraySequencesAgree ==
    (call.op = "get_type" /\ call.res.ok /\ HasArray(call.res.val)) =>
        LET raw == call.arg
            ty == call.res.val
        IN  /\ Len(ty.array) = raw.array_size
            /\ Len(ty.array_size_literal) = raw.array_size
            /\ \A i \in 1..raw.array_size :
                   /\ ty.array[i] = raw.array[i]
                   /\ ty.array_size_literal[i] = raw.array_size_literal[i]

\* a type of MaxElems array dimensions, literal and not, was returned
C23_Witness ==
    /\ call.op = "get_type"
    /\ call.res.ok
    /\ HasArray(call.res.val)
    /\ Len(call.res.val.array) = MaxElems
    /\ call.res.val.array_size_literal[1] # call.res.val.array_size_literal[MaxElems]

\* The value a field of a Type must have when it was made from the record raw
FieldOfRaw(raw, field) ==
    CASE field = "vecsize" -> raw.vecsize
      [] field = "columns" -> raw.columns
      [] field = "member_types" -> raw.member_types
      [] field = "array" -> raw.array
      [] field = "array_size_literal" -> raw.array_size_literal
      [] field = "image" ->
            [type_id |-> raw.image.type_, dim |-> raw.image.dim,
             depth |-> raw.image.depth, arrayed |-> raw.image.arrayed,
             ms |-> raw.image.ms, sampled |-> raw.image.sampled,
             format |-> raw.image.format]

InstanceOf(nat, t) == nat[handles[t].sc_compiler]

\* C25: handles parsed independently are independent. Every operation on one
\* handle leaves every other live handle as it was, its Compiled flag, its
\* override tables, its native instance and what it has been asked, and no
\* two live handles have the same native instance; so what a handle holds
\* and what its engine has received come from its own calls alone.
C25_HandlesIndependent ==
    /\ [][\A t \in Slots :
            (Live(t) /\ call'.h # t) =>
                /\ handles'[t] = handles[t]
                /\ hist'[t] = hist[t]
                /\ InstanceOf(native', t) = InstanceOf(native, t)]_vars
    /\ [](\A s, t \in Slots :
            (Live(s) /\ Live(t) /\ s # t) =>
                /\ handles[s].sc_compiler # handles[t].sc_compiler
                /\ InstanceOf(native, s).alive)

\* one handle has just been given options while another, already compiled
\* with empty tables, lives beside it
C25_Witness ==
    \E s, t \in Slots :
        /\ s # t
        /\ Live(s) /\ Live(t)
        /\ call.op = "set_compiler_options" /\ call.h = s /\ call.res.ok
        /\ handles[s].target_data # EmptyTargetData
        /\ ~handles[s].has_been_compiled
        /\ handles[t].has_been_compiled
        /\ handles[t].target_data = EmptyTargetData
        /\ InstanceOf(native, t).options = None

\* Buffers of the same array: the array of a category and its elements' names
IsArrayBuf(b) == b.b \in {"entry_points", "resources"}
IsNameOf(b, array) ==
    /\ b.c = array.c
    /\ \/ array.b = "entry_points" /\ b.b = "entry_point_name"
       \/ array.b = "resources" /\ b.b = "resource_name"

\* C26: within every query that receives a native buffer, every read of the
\* buffer (copying an element, decoding a string) comes before the release
\* command for that buffer and nothing is read from it after; in particular
\* an element array is released after the reads of its elements and of their
\* name strings, all of them when the call returns Ok.
C26_ReadsBeforeRelease ==
    LET t == call.trace
    IN  \A i \in 1..Len(t) :
            t[i].k = "free" =>
                /\ \A j \in 1..Len(t) :
                       (t[j].k = "read" /\ t[j].buf = t[i].buf) => j < i
                /\ IsArrayBuf(t[i].buf) =>
                       /\ \A j \in 1..Len(t) :
                              (t[j].k = "read" /\ IsNameOf(t[j].buf, t[i].buf)) => j < i
                       /\ (call.res.ok /\ call.op = "get_entry_points") =>
                              /\ Reads(SubSeq(t, 1, i), t[i].buf) = Len(call.res.val)
                              /\ \A k \in 1..Len(call.res.val) :
                                     Reads(SubSeq(t, 1, i), EpName(k)) = 1
                       /\ (call.res.ok /\ call.op = "get_shader_resources") =>
                              LET c == t[i].buf.c
                              IN  /\ Reads(SubSeq(t, 1, i), t[i].buf) =
                                         Len(call.res.val[c])
                                  /\ \A k \in 1..Len(call.res.val[c]) :
                                         Reads(SubSeq(t, 1, i), ResName(c, k)) = 1

\* an array of MaxElems entry points was read and released, the call fine
C26_Witness ==
    /\ call.op = "get_entry_points"
    /\ call.res.ok
    /\ Len(call.res.val) = MaxElems
    /\ Releases(call.trace, EpArray) = 1
    /\ Reads(call.trace, EpName(MaxElems)) = 1

\* The public calls that change the module held by the engine, and the native
\* commands that do
Setters ==
    {"set_decoration", "unset_decoration", "set_name", "set_member_name",
     "set_member_decoration", "set_scalar_constant", "rename_interface_variable",
     "set_compiler_options"}
MutationCommands ==
    (Setters \ {"set_compiler_options"}) \cup {"set_entry_point", "msl_set_options"}
TakesText == {"set_name", "set_member_name", "rename_interface_variable"}
CommandNames(t) == [i \in 1..Len(t) |-> t[i].name]
Refused == call.trace = <<>> /\ call.res = Err("Unhandled", NoValue)

\* C27: the mutation commands an engine receives are the public mutating
\* calls on its handle, in the order of the calls. Every setter issues its
\* own command, with the identifier it was given, once and before it
\* returns (set_compiler_options: the selection of the entry point when one
\* is asked for, then the options, stopping at the first that fails); a
\* setter whose text cannot be encoded is refused and issues nothing; and no
\* other call issues a mutation command, so none is deferred or merged.
C27_MutationsInCallOrder ==
    /\ (call.op \in Setters \ {"set_compiler_options"}) =>
           /\ \/ call.op \in TakesText /\ Refused
              \/ /\ CommandNames(call.trace) = <<call.op>>
                 /\ call.trace[1].k = "cmd"
                 /\ call.op # "rename_interface_variable" =>
                        call.trace[1].args[1] =
                            IF call.op = "set_scalar_constant" THEN call.arg.id
                            ELSE call.arg
           /\ call.res.ok => call.trace # <<>>
    /\ call.op = "set_compiler_options" =>
           IF call.arg.entry_point = None
           THEN CommandNames(call.trace) = <<"msl_set_options">>
           ELSE /\ \/ Refused
                   \/ CommandNames(call.trace) = <<"set_entry_point">> /\ ~call.res.ok
                   \/ CommandNames(call.trace) = <<"set_entry_point", "msl_set_options">>
                /\ call.res.ok => Len(call.trace) = 2
    /\ call.op \notin Setters =>
           \A i \in 1..Len(call.trace) : call.trace[i].name \notin MutationCommands

\* a compiled handle has just been given a member name, which the engine took
C27_Witness ==
    /\ call.op = "set_member_name"
    /\ call.res.ok
    /\ CommandNames(call.trace) = <<"set_member_name">>
    /\ handles[call.h].has_been_compiled

\* C28: a query returns the first error it met. When the conversion of an
\* element fails in get_entry_points or get_shader_resources and a release
\* command later in the same call reports a status other than success, the
\* caller gets the error of the element conversion, not that of the release.
C28_FirstErrorReturned ==
    call.op \in {"get_entry_points", "get_shader_resources"} =>
        \A i, j \in 1..Len(call.trace) :
            (/\ i < j
             /\ call.trace[i].name = "decode"
             /\ call.trace[i].st # "Success"
             /\ call.trace[j].k = "free"
             /\ call.trace[j].st # "Success") =>
                call.res = Err("Unhandled", NoValue)

\* The calls made on a handle that exists before and after the call
OnHandle == call.op \notin {"none", "parse", "drop", "move"} /\ call.h \in Slots

\* C29: every operation other than compile leaves has_been_compiled as it
\* was, every operation other than set_compiler_options leaves the three
\* override tables as they were, and every reflection or mutation call other
\* than get_cleansed_entry_point_name issues its native command whether the
\* handle has been compiled or not.
C29_FrameOfFlagAndTables ==
    OnHandle =>
        /\ call.op # "compile" =>
               handles[call.h].has_been_compiled = call.before.has_been_compiled
        /\ call.op # "set_compiler_options" =>
               handles[call.h].target_data = call.before.target_data
        /\ call.op \notin {"compile", "get_cleansed_entry_point_name"} =>
               \/ Refused
               \/ /\ call.trace # <<>>
                  /\ call.trace[1].k = "cmd"
                  /\ call.trace[1].name \in {call.op, "set_entry_point", "msl_set_options"}

\* a handle not yet compiled, its tables filled, had a decoration set
C29_Witness ==
    /\ call.op = "set_decoration"
    /\ call.res.ok
    /\ ~call.before.has_been_compiled
    /\ ~handles[call.h].has_been_compiled
    /\ call.before.target_data # EmptyTargetData
    /\ handles[call.h].target_data = call.before.target_data

\* How often the select-entry-point command occurs in a trace
NumSelects(t) == LET P(e) == e.name = "set_entry_point" IN Len(SelectSeq(t, P))

====
